---------------------------- MODULE Spec2Model ----------------------------
(***************************************************************************)
(* Model of the rule-based menu parser (src/app/services/menuParser.ts),   *)
(* of the parser that asks the Grok API (src/app/services/grokParser.ts),  *)
(* of the hook useUserPermissions (src/hooks/useUserPermissions.ts) and of *)
(* extractTextFromFiles of the dialog AddMenuDialog                        *)
(* (src/app/components/AddMenuDialog.tsx, src/unnamed/part_001).           *)
(*                                                                         *)
(* Text is modelled by TLA+ strings, character by character: Len, SubSeq   *)
(* and \o act on strings as String.length, String.substring and + do in    *)
(* the source.  Regular expressions are modelled by a small backtracking   *)
(* matcher (Ends) that returns the candidate end positions of a match in   *)
(* the priority order of the JavaScript engine, so that "first match",     *)
(* greedy and lazy quantifiers mean what they mean in the source.          *)
(***************************************************************************)
EXTENDS Integers, Sequences, FiniteSets, TLC

(***************************************************************************)
(* Characters                                                              *)
(***************************************************************************)

\* A TLA+ string holds the characters U+0001..U+00FF without the grave
\* accent.  A character of the source above U+00FF, and the grave accent,
\* is written as the C1 control character given here, which occurs in no
\* menu text and which the source treats like any other character; every
\* class of the source is its intersection with this alphabet.
NBSP        == " "  \* U+00A0 itself
EmDash      == ""  \* U+2014
EnDash      == ""  \* U+2013
Ellipsis    == ""  \* U+2026
Bullet      == ""  \* U+2022
TradeMark   == ""  \* U+2122
ServiceMark == ""  \* U+2120
U2000       == ""  \* U+2000 (en quad, a WhiteSpace character)
U200F       == ""  \* U+200F (right-to-left mark)
U2028       == ""  \* U+2028 (line separator)
U2029       == ""  \* U+2029 (paragraph separator)
BlackSquare == ""  \* U+25A0
BlackCircle == ""  \* U+25CF
BlackStar   == ""  \* U+2605
CheckMark   == ""  \* U+2713
VS16        == ""  \* U+FE0F (variation selector 16)
WarningSign == ""  \* U+26A0
Umbrella    == ""  \* U+2602
Scissors    == ""  \* U+2702
LeftSingleQuote  == ""  \* U+2018
RightSingleQuote == ""  \* U+2019
LeftDoubleQuote  == ""  \* U+201C
RightDoubleQuote == ""  \* U+201D
U2003       == ""  \* U+2003 (em space, a WhiteSpace character)
Backtick    == ""  \* U+0060 (grave accent), which a TLA+ string cannot hold
\* Every other code unit (U+0000, U+0080..U+009F and what is above U+00FF
\* and not given here) is written as Beyond and the four hexadecimal
\* digits of the code unit.  The texts of the menus hold none; the \u
\* escapes of JSON.parse yield them, and what the Grok parser does with a
\* text that JSON.parse has yielded takes the five characters as the one
\* code unit.
Beyond      == ""
HexDigits   == "0123456789abcdef"

\* U+0001..U+005F, U+0061..U+007F and U+00A0..U+00FF, in the order of their
\* code points
BasicLatin == "\t\n\f\r !\"#$%&'()*+,-./0123456789:;<=>?@ABCDEFGHIJKLMNOPQRSTUVWXYZ[\\]^_"
AfterGrave == "abcdefghijklmnopqrstuvwxyz{|}~"
Latin1Supplement == " ¡¢£¤¥¦§¨©ª«¬­®¯°±²³´µ¶·¸¹º»¼½¾¿ÀÁÂÃÄÅÆÇÈÉÊËÌÍÎÏÐÑÒÓÔÕÖ×ØÙÚÛÜÝÞßàáâãäåæçèéêëìíîïðñòóôõö÷øùúûüýþÿ"

\* the code points of the characters written as C1 control characters
StandIns ==
    96 :> Backtick @@ 8212 :> EmDash @@ 8211 :> EnDash @@ 8230 :> Ellipsis
    @@ 8226 :> Bullet @@ 8482 :> TradeMark @@ 8480 :> ServiceMark
    @@ 8192 :> U2000 @@ 8207 :> U200F @@ 8232 :> U2028 @@ 8233 :> U2029
    @@ 9632 :> BlackSquare @@ 9679 :> BlackCircle @@ 9733 :> BlackStar
    @@ 10003 :> CheckMark @@ 65039 :> VS16 @@ 9888 :> WarningSign
    @@ 9730 :> Umbrella @@ 9986 :> Scissors @@ 8216 :> LeftSingleQuote
    @@ 8217 :> RightSingleQuote @@ 8220 :> LeftDoubleQuote
    @@ 8221 :> RightDoubleQuote @@ 8195 :> U2003

\* String.fromCharCode(n)
FromCharCode(n) ==
    IF n \in 1..95 THEN SubSeq(BasicLatin, n, n)
    ELSE IF n \in 97..127 THEN SubSeq(AfterGrave, n - 96, n - 96)
    ELSE IF n \in 160..255 THEN SubSeq(Latin1Supplement, n - 159, n - 159)
    ELSE IF n \in DOMAIN StandIns THEN StandIns[n]
    ELSE LET Hex(d) == SubSeq(HexDigits, d + 1, d + 1)
         IN  Beyond \o Hex(n \div 4096) \o Hex((n \div 256) % 16)
                    \o Hex((n \div 16) % 16) \o Hex(n % 16)

\* ECMAScript LineTerminator
LineTerminators == {"\n", "\r", U2028, U2029}

\* U+000B (vertical tab)
VT == ""

\* ECMAScript \s (WhiteSpace and LineTerminator), as used by trim() and \s
WhiteSpace == {" ", "\t", VT, "\f", NBSP, U2000, U2003} \cup LineTerminators

Digits == {"0", "1", "2", "3", "4", "5", "6", "7", "8", "9"}

\* the letters of the alphabet that toLowerCase changes, and what it makes
\* of each
UpperLetters == "ABCDEFGHIJKLMNOPQRSTUVWXYZÀÁÂÃÄÅÆÇÈÉÊËÌÍÎÏÐÑÒÓÔÕÖØÙÚÛÜÝÞ"
LowerLetters == "abcdefghijklmnopqrstuvwxyzàáâãäåæçèéêëìíîïðñòóôõöøùúûüýþ"

\* [A-Z]
UpperCase == {SubSeq(UpperLetters, k, k) : k \in 1..26}

\* toLowerCase on each letter it changes
LowerOf ==
    [c \in {SubSeq(UpperLetters, k, k) : k \in 1..Len(UpperLetters)} |->
        LET k == CHOOSE k \in 1..Len(UpperLetters) : SubSeq(UpperLetters, k, k) = c
        IN  SubSeq(LowerLetters, k, k)]

\* String.prototype.toLowerCase on one character
LowerChar(c) == IF c \in DOMAIN LowerOf THEN LowerOf[c] ELSE c

CharAt(s, i) == SubSeq(s, i, i)

RECURSIVE ToLowerRange(_, _, _)
\* toLowerCase of the characters a..b of s, by halves
ToLowerRange(s, a, b) ==
    IF a > b THEN ""
    ELSE IF a = b THEN LowerChar(CharAt(s, a))
    ELSE LET mid == (a + b) \div 2
         IN  ToLowerRange(s, a, mid) \o ToLowerRange(s, mid + 1, b)

\* String.prototype.toLowerCase
ToLower(s) == ToLowerRange(s, 1, Len(s))

Min(S) == CHOOSE x \in S : \A y \in S : x <= y
Max(S) == CHOOSE x \in S : \A y \in S : x >= y

\* String.prototype.substring(from) with a 1-based index
Rest(s, i) == SubSeq(s, i, Len(s))

\* the first position >= i at which p occurs in s, 0 when there is none
IndexOfFrom(s, p, i) ==
    LET First(at) == IF at = {} THEN 0 ELSE Min(at)
    IN  First({j \in i..(Len(s) - Len(p) + 1) : SubSeq(s, j, j + Len(p) - 1) = p})

\* String.prototype.includes
Includes(s, p) == IndexOfFrom(s, p, 1) # 0

\* String.prototype.trim
Trim(s) ==
    LET Between(keep) == IF keep = {} THEN "" ELSE SubSeq(s, Min(keep), Max(keep))
    IN  Between({j \in 1..Len(s) : CharAt(s, j) \notin WhiteSpace})

RECURSIVE Split(_, _)
\* String.prototype.split with a one-character separator
Split(s, sep) ==
    LET At(k) == IF k = 0 THEN <<s>>
                 ELSE <<SubSeq(s, 1, k - 1)>> \o Split(Rest(s, k + 1), sep)
    IN  At(IndexOfFrom(s, sep, 1))

RECURSIVE Join(_, _)
\* Array.prototype.join
Join(xs, sep) ==
    IF Len(xs) = 0 THEN ""
    ELSE IF Len(xs) = 1 THEN xs[1]
    ELSE xs[1] \o sep \o Join(Tail(xs), sep)

RECURSIVE FilterNonEmpty(_)
\* Array.prototype.filter(line => line)
FilterNonEmpty(xs) ==
    IF Len(xs) = 0 THEN <<>>
    ELSE IF xs[1] = "" THEN FilterNonEmpty(Tail(xs))
    ELSE <<xs[1]>> \o FilterNonEmpty(Tail(xs))

\* Array.prototype.map(line => line.trim())
MapTrim(xs) == [k \in 1..Len(xs) |-> Trim(xs[k])]

(***************************************************************************)
(* Regular expressions                                                     *)
(***************************************************************************)

Lit(p)     == [t |-> "lit", s |-> p]
Cls(c)     == [t |-> "cls", c |-> c]
NotCls(c)  == [t |-> "ncls", c |-> c]
Dot        == [t |-> "dot"]
Cat(a, b)  == [t |-> "cat", a |-> a, b |-> b]
Alt(a, b)  == [t |-> "alt", a |-> a, b |-> b]
Opt(a)     == [t |-> "opt", a |-> a]
Star(a)    == [t |-> "star", a |-> a]
Plus(a)    == [t |-> "plus", a |-> a]
LazyPlus(a) == [t |-> "lazyplus", a |-> a]
LazyStar(a) == [t |-> "lazystar", a |-> a]
Bol        == [t |-> "bol"]
Eol        == [t |-> "eol"]

Cat3(a, b, c) == Cat(a, Cat(b, c))
WS0 == Star(Cls(WhiteSpace))
\* /\s*x\s*/
Padded(x) == Cat3(WS0, x, WS0)

\* a = b up to the case of the letters
EqualsIgnoreCase(a, b) == Cardinality({ToLower(x) : x \in {a, b}}) = 1

\* the strings xs as a match under the i flag (ci) compares them
Folded(xs, ci) == IF ci THEN [k \in 1..Len(xs) |-> ToLower(xs[k])] ELSE xs

\* the character c matches the one-character pattern a
CharMatches(a, c) ==
    CASE a.t = "cls" -> c \in a.c
      [] a.t = "ncls" -> c \notin a.c
      [] a.t = "dot" -> c \notin LineTerminators
      [] OTHER -> FALSE

\* the position after the longest run, from position i of s on, of
\* characters that match the one-character pattern a
RunEnd(a, s, i) ==
    Min({j \in i..Len(s) : ~CharMatches(a, CharAt(s, j))} \cup {Len(s) + 1})

\* the positions e, e - 1, ..., i and i, i + 1, ..., e
Downto(e, i) == [k \in 1..(e - i + 1) |-> e + 1 - k]
Upto(i, e) == [k \in 1..(e - i + 1) |-> i + k - 1]

RECURSIVE Ends(_, _, _, _)
RECURSIVE EndsBetween(_, _, _, _, _, _)
\* the ends of the matches of re at each of the positions es[lo..hi], in
\* order: those of the first half of the positions, then those of the rest
EndsBetween(es, re, s, ci, lo, hi) ==
    IF lo > hi THEN <<>>
    ELSE IF lo = hi THEN Ends(re, s, es[lo], ci)
    ELSE EndsBetween(es, re, s, ci, lo, (lo + hi) \div 2)
         \o EndsBetween(es, re, s, ci, (lo + hi) \div 2 + 1, hi)

\* the ends of the matches of re at each of the positions es, from the
\* k-th on, in order
EndsAfter(es, re, s, ci, k) == EndsBetween(es, re, s, ci, k, Len(es))

RECURSIVE Progress(_, _, _)
\* the positions of es beyond i: an iteration of a quantifier that matched
\* the empty string is not repeated
Progress(es, i, k) ==
    IF k > Len(es) THEN <<>>
    ELSE IF es[k] > i THEN <<es[k]>> \o Progress(es, i, k + 1)
    ELSE Progress(es, i, k + 1)

\* The positions after the last character of the matches of re that start
\* at position i of s, most preferred first (backtracking order); ci is the
\* i flag.
Ends(re, s, i, ci) ==
    CASE re.t = "lit" ->
           LET j == i + Len(re.s) - 1
           IN  IF j > Len(s) THEN <<>>
               ELSE IF ci /\ EqualsIgnoreCase(SubSeq(s, i, j), re.s) THEN <<j + 1>>
               ELSE IF ~ci /\ SubSeq(s, i, j) = re.s THEN <<j + 1>>
               ELSE <<>>
      [] re.t = "cls" ->
           IF i <= Len(s) /\ CharAt(s, i) \in re.c THEN <<i + 1>> ELSE <<>>
      [] re.t = "ncls" ->
           IF i <= Len(s) /\ CharAt(s, i) \notin re.c THEN <<i + 1>> ELSE <<>>
      [] re.t = "dot" ->
           IF i <= Len(s) /\ CharAt(s, i) \notin LineTerminators
           THEN <<i + 1>> ELSE <<>>
      [] re.t = "cat" -> EndsAfter(Ends(re.a, s, i, ci), re.b, s, ci, 1)
      [] re.t = "alt" -> Ends(re.a, s, i, ci) \o Ends(re.b, s, i, ci)
      [] re.t = "opt" -> Ends(re.a, s, i, ci) \o <<i>>
      \* a quantifier on a one-character pattern: the ends are the positions
      \* of the run, the longest first when greedy, the shortest when lazy
      [] re.t = "star" ->
           IF re.a.t \in {"cls", "ncls", "dot"} THEN Downto(RunEnd(re.a, s, i), i)
           ELSE EndsAfter(Progress(Ends(re.a, s, i, ci), i, 1), re, s, ci, 1) \o <<i>>
      [] re.t = "plus" -> Ends(Cat(re.a, Star(re.a)), s, i, ci)
      [] re.t = "lazyplus" ->
           LET Then(es) == es \o EndsAfter(Progress(es, i, 1), re, s, ci, 1)
           IN  Then(Ends(re.a, s, i, ci))
      [] re.t = "lazystar" ->
           IF re.a.t \in {"cls", "ncls", "dot"} THEN Upto(i, RunEnd(re.a, s, i))
           ELSE <<i>> \o EndsAfter(Progress(Ends(re.a, s, i, ci), i, 1), re, s, ci, 1)
      [] re.t = "bol" -> IF i = 1 THEN <<i>> ELSE <<>>
      [] re.t = "eol" -> IF i = Len(s) + 1 THEN <<i>> ELSE <<>>

RECURSIVE CanOccur(_, _, _)
\* a condition every string with a match of re somewhere meets: the literals
\* and classes that a match cannot do without occur in s
CanOccur(re, s, ci) ==
    CASE re.t = "lit" ->
           LET In(xs) == Includes(xs[1], xs[2]) IN In(Folded(<<s, re.s>>, ci))
      [] re.t = "cls" -> \E j \in 1..Len(s) : CharAt(s, j) \in re.c
      [] re.t \in {"dot", "ncls"} -> s # ""
      [] re.t = "cat" -> CanOccur(re.a, s, ci) /\ CanOccur(re.b, s, ci)
      [] re.t = "alt" -> CanOccur(re.a, s, ci) \/ CanOccur(re.b, s, ci)
      [] re.t \in {"plus", "lazyplus"} -> CanOccur(re.a, s, ci)
      [] OTHER -> TRUE

\* RegExp exec: the leftmost match at or after position i, as <<start, end>>
\* (end exclusive); << >> when there is none
SearchFrom(re, s, i, ci) ==
    IF i > Len(s) + 1 \/ ~CanOccur(re, s, ci) THEN <<>>
    ELSE LET Leftmost(ends) ==
                 LET at == {j \in DOMAIN ends : ends[j] # <<>>}
                 IN  IF at = {} THEN <<>> ELSE <<Min(at), ends[Min(at)][1]>>
         IN  Leftmost([j \in i..(Len(s) + 1) |-> Ends(re, s, j, ci)])

\* RegExp.prototype.test
Test(re, s, ci) == SearchFrom(re, s, 1, ci) # <<>>

RECURSIVE ReplaceFrom(_, _, _, _, _, _)
\* String.prototype.replace, from position i of s on; g is the g flag. A
\* pattern with the g flag goes on after each match, one character further
\* after an empty match.
ReplaceFrom(s, re, by, ci, g, i) ==
    LET With(m) ==
            IF m = <<>> THEN Rest(s, i)
            ELSE IF ~g THEN SubSeq(s, i, m[1] - 1) \o by \o Rest(s, m[2])
            ELSE IF m[2] > m[1]
            THEN SubSeq(s, i, m[1] - 1) \o by \o ReplaceFrom(s, re, by, ci, g, m[2])
            ELSE IF m[1] > Len(s) THEN Rest(s, i) \o by
            ELSE SubSeq(s, i, m[1] - 1) \o by \o CharAt(s, m[1])
                 \o ReplaceFrom(s, re, by, ci, g, m[1] + 1)
    IN  With(SearchFrom(re, s, i, ci))

\* String.prototype.replace with a pattern without the g flag
ReplaceFirst(s, re, by, ci) == ReplaceFrom(s, re, by, ci, FALSE, 1)

\* String.prototype.replace with a pattern with the g flag
ReplaceAll(s, re, by, ci) == ReplaceFrom(s, re, by, ci, TRUE, 1)

(***************************************************************************)
(* Static tables of MenuParser                                             *)
(***************************************************************************)

NULL == [null |-> TRUE]
\* the value undefined
Undefined == [t |-> "undefined"]

DAY_PATTERNS ==
    <<Lit("Monday"), Lit("Tuesday"), Lit("Wednesday"), Lit("Thursday"),
      Lit("Friday"), Lit("Saturday"), Lit("Sunday")>>

TIME_OF_DAY_PATTERNS ==
    <<[pattern |-> Lit("breakfast"), value |-> "breakfast"],
      [pattern |-> Lit("brunch"), value |-> "brunch"],
      [pattern |-> Lit("lunch"), value |-> "lunch"],
      [pattern |-> Lit("dinner"), value |-> "dinner"]>>

COURSE_TYPE_PATTERNS ==
    <<"Entrée", "Entree", "International Station", "Intemational Station",
      "Salads of the Day", "salads of the Day", "Soups of the Day",
      "Pasta Station", "Dessert", "Appetizer", "Main Course", "Side Dish">>

\* Array.prototype.some(pattern => pattern.test(s)) over a list of patterns
SomeTest(patterns, s, ci) == \E k \in 1..Len(patterns) : Test(patterns[k], s, ci)

(***************************************************************************)
(* cleanText                                                               *)
(***************************************************************************)

RECURSIVE ApplyReplacements(_, _, _)
\* a chain text.replace(...).replace(...)... of replacements, each given as
\* <<pattern, replacement, g flag>>; no pattern of the chains of this
\* program matches in the empty string, which is returned as it is
ApplyReplacements(text, reps, k) ==
    IF text = "" \/ k > Len(reps) THEN text
    ELSE ApplyReplacements(
             ReplaceFrom(text, reps[k][1], reps[k][2], FALSE, reps[k][3], 1),
             reps, k + 1)

\* the replacements of cleanText in order; the quote patterns and their
\* replacements are the same ASCII characters in the source
CleanReplacements ==
    <<<<Lit("\r\n"), "\n", TRUE>>,
      <<Lit("\r"), "\n", TRUE>>,
      <<Lit("'"), "'", TRUE>>,
      <<Lit("\""), "\"", TRUE>>,
      <<Lit("\""), "\"", TRUE>>,
      <<Lit(EmDash), "-", TRUE>>,
      <<Lit(EnDash), "-", TRUE>>,
      <<Lit(Ellipsis), "...", TRUE>>,
      <<Lit(NBSP), " ", TRUE>>,
      <<Lit(U2000 \o "-" \o U200F), " ", TRUE>>,
      <<Lit(U2028 \o "-" \o U2029), "\n", TRUE>>>>

cleanText(text) == Trim(ApplyReplacements(text, CleanReplacements, 1))

(***************************************************************************)
(* extractDayBlocks                                                        *)
(***************************************************************************)

\* DAY_PATTERNS.some(pattern => pattern.test(trimmedLine))
isDayHeader(trimmedLine) == SomeTest(DAY_PATTERNS, trimmedLine, TRUE)

\* one iteration of the loop over the lines; st = [dayBlocks, currentBlock]
DayBlockStep(st, line) ==
    LET Push(cur, trimmedLine) ==
            IF trimmedLine # "" THEN Append(cur, trimmedLine) ELSE cur
        Step(trimmedLine, flush) ==
            [dayBlocks |-> IF flush
                           THEN Append(st.dayBlocks, Join(st.currentBlock, "\n"))
                           ELSE st.dayBlocks,
             currentBlock |-> Push(IF flush THEN <<>> ELSE st.currentBlock,
                                   trimmedLine)]
        Line(trimmedLine) ==
            Step(trimmedLine, isDayHeader(trimmedLine) /\ Len(st.currentBlock) > 0)
    IN  Line(Trim(line))

RECURSIVE DayBlockLoop(_, _, _)
DayBlockLoop(st, lines, k) ==
    IF k > Len(lines) THEN st
    ELSE DayBlockLoop(DayBlockStep(st, lines[k]), lines, k + 1)

extractDayBlocks(text) ==
    LET Last(st) == IF Len(st.currentBlock) > 0
                    THEN Append(st.dayBlocks, Join(st.currentBlock, "\n"))
                    ELSE st.dayBlocks
    IN  Last(DayBlockLoop([dayBlocks |-> <<>>, currentBlock |-> <<>>],
                          Split(text, "\n"), 1))

(***************************************************************************)
(* extractTimeInfo                                                         *)
(***************************************************************************)

AmPm == Opt(Alt(Lit("am"), Lit("pm")))
\* \d
Digit == Cls(Digits)
\* :\d{2}
Minutes == Cat3(Lit(":"), Digit, Digit)
\* \d{1,2} and then the pattern x
Digits12(x) == Cat3(Digit, Opt(Digit), x)
\* (\d{1,2}:\d{2}(?:am|pm)?) and (\d{1,2}(?::\d{2})?(?:am|pm)?)
TimeToken(minutes) == Digits12(Cat(minutes, AmPm))
StartToken == TimeToken(Minutes)
EndToken == TimeToken(Opt(Minutes))
\* \s*[-—–]\s*
RangeDash == Padded(Cls({"-", EmDash, EnDash}))

RECURSIVE GroupEnds3(_, _, _, _, _)
RECURSIVE GroupEnds2(_, _, _, _, _, _)
\* for the end e1 of the first group: the <<e1, e2, e3>> of the matches of
\* the separator and the second group, in priority order
GroupEnds3(s, e1, e2, es3, k) ==
    IF k > Len(es3) THEN <<>>
    ELSE <<<<e1, e2, es3[k]>>>> \o GroupEnds3(s, e1, e2, es3, k + 1)

GroupEnds2(s, e1, es2, k, re3, ci) ==
    IF k > Len(es2) THEN <<>>
    ELSE IF k = Len(es2) THEN GroupEnds3(s, e1, es2[k], Ends(re3, s, es2[k], ci), 1)
    ELSE GroupEnds2(s, e1, SubSeq(es2, k, (k + Len(es2)) \div 2), 1, re3, ci)
         \o GroupEnds2(s, e1, es2, (k + Len(es2)) \div 2 + 1, re3, ci)

RECURSIVE GroupEnds1(_, _, _, _, _, _)
GroupEnds1(s, es1, k, re2, re3, ci) ==
    IF k > Len(es1) THEN <<>>
    ELSE GroupEnds2(s, es1[k], Ends(re2, s, es1[k], ci), 1, re3, ci)
         \o GroupEnds1(s, es1, k + 1, re2, re3, ci)

RECURSIVE MatchGroups(_, _, _, _, _, _)
\* String.prototype.match of /(re1)re2(re3)/ from position i: << >> or
\* <<group 1, group 2>> of the leftmost, most preferred match
MatchGroups(s, re1, re2, re3, ci, i) ==
    IF i > Len(s) + 1 THEN <<>>
    ELSE LET First(ms) ==
                 IF Len(ms) > 0
                 THEN <<SubSeq(s, i, ms[1][1] - 1), SubSeq(s, ms[1][2], ms[1][3] - 1)>>
                 ELSE MatchGroups(s, re1, re2, re3, ci, i + 1)
         IN  First(GroupEnds1(s, Ends(re1, s, i, ci), 1, re2, re3, ci))

RECURSIVE FirstTimeOfDay(_, _, _)
\* the loop over TIME_OF_DAY_PATTERNS with its break; 'lunch' is the default
FirstTimeOfDay(headerLine, patterns, k) ==
    IF k > Len(patterns) THEN "lunch"
    ELSE IF Test(patterns[k].pattern, headerLine, TRUE) THEN patterns[k].value
    ELSE FirstTimeOfDay(headerLine, patterns, k + 1)

\* the object extractTimeInfo returns for a time-of-day and the two times
TimeInfo(timeOfDay, startTime, endTime) ==
    [timeOfDay |-> timeOfDay, startTime |-> Trim(startTime), endTime |-> Trim(endTime)]

\* TimeInfoOf whose fallback sets startTime only
TimeInfoOfStartOnly(headerLine, timeOfDay) ==
    LET Single(singleTimeMatch) ==
            IF singleTimeMatch # <<>>
            THEN [TimeInfo(timeOfDay,
                           SubSeq(headerLine, singleTimeMatch[1], singleTimeMatch[2] - 1),
                           "") EXCEPT !.endTime = ""]
            ELSE NULL
        Range(timeMatch) ==
            IF timeMatch # <<>> THEN TimeInfo(timeOfDay, timeMatch[1], timeMatch[2])
            ELSE Single(SearchFrom(StartToken, headerLine, 1, TRUE))
    IN  Range(MatchGroups(headerLine, StartToken, RangeDash, EndToken, TRUE, 1))

\* extractTimeInfo after its loop over TIME_OF_DAY_PATTERNS, which gave
\* timeOfDay: the time range, else the single time, else null
TimeInfoOf(headerLine, timeOfDay) ==
    LET Single(singleTimeMatch) ==
            IF singleTimeMatch # <<>>
            THEN TimeInfo(timeOfDay,
                          SubSeq(headerLine, singleTimeMatch[1], singleTimeMatch[2] - 1),
                          SubSeq(headerLine, singleTimeMatch[1], singleTimeMatch[2] - 1))
            ELSE NULL
        Range(timeMatch) ==
            IF timeMatch # <<>> THEN TimeInfo(timeOfDay, timeMatch[1], timeMatch[2])
            ELSE Single(SearchFrom(StartToken, headerLine, 1, TRUE))
    IN  Range(MatchGroups(headerLine, StartToken, RangeDash, EndToken, TRUE, 1))

\* extractTimeInfo on RegExp objects whose lastIndex is 0
extractTimeInfo(headerLine) ==
    TimeInfoOf(headerLine, FirstTimeOfDay(headerLine, TIME_OF_DAY_PATTERNS, 1))

(***************************************************************************)
(* removeNoticeSection, removeOcrArtifacts, cleanFoodItem                  *)
(***************************************************************************)

\* [,.]?
CommaDot == Opt(Cls({",", "."}))

\* X\s*-[,.]?\s*
DietLabel(x) == Cat3(Lit(x), WS0, Cat3(Lit("-"), CommaDot, WS0))

RECURSIVE CatAll(_)
\* the patterns xs one after the other
CatAll(xs) == IF Len(xs) = 1 THEN xs[1] ELSE Cat(xs[1], CatAll(Tail(xs)))

\* the noticePatterns of removeNoticeSection, all with the i flag
RemoveNoticePatterns ==
    <<Cat3(Lit("Notice"), Opt(Lit("*")), CommaDot),
      Cat3(Opt(Lit("*")), Lit("Notice"), CommaDot),
      Cat(Cat3(Lit("The salad bar"), Opt(Lit("s")), LazyPlus(Dot)),
          Lit("remain the same")),
      Lit("Symbols to identify"),
      Cat3(Lit("Salad Bar"), CommaDot, Eol),
      Lit("Daily choice of Mixed Greens"),
      CatAll([k \in 1..3 |-> DietLabel(<<"Vegetarian", "Vegan", "Halal">>[k])]
             \o <<Lit("Gluten Free"), WS0, Lit("-")>>)>>

RECURSIVE FirstNoticeStart(_, _, _)
\* the loop over noticePatterns with its break: the index of the match of
\* the first pattern that matches, 0 when none does (noticeStart = -1)
FirstNoticeStart(text, noticePatterns, k) ==
    IF k > Len(noticePatterns) THEN 0
    ELSE LET Start(m) ==
                 IF m # <<>> THEN m[1] ELSE FirstNoticeStart(text, noticePatterns, k + 1)
         IN  Start(SearchFrom(noticePatterns[k], text, 1, TRUE))

removeNoticeSection(text) ==
    LET Cut(noticeStart) ==
            IF noticeStart # 0 THEN Trim(SubSeq(text, 1, noticeStart - 1)) ELSE text
    IN  Cut(FirstNoticeStart(text, RemoveNoticePatterns, 1))

\* [-\\/|*+>]+
SymbolRun == Plus(Cls({"-", "\\", "/", "|", "*", "+", ">"}))
\* the shapes and arrows of the alphabet
Shapes == {BlackSquare, BlackCircle}
\* the stars, checks and warnings of the alphabet; U+00D7 and U+FE0F are
\* members of the class in the source
Stars == {BlackStar, CheckMark, VS16, "×", WarningSign}
\* [\u{2600}-\u{26FF}] and [\u{2700}-\u{27BF}] within the alphabet
MiscSymbols == {BlackStar, WarningSign, Umbrella}
Dingbats == {CheckMark, Scissors}

\* the replacements .replace(/\s*X\s*/g, '') for the patterns X of xs
Removals(xs) == [k \in 1..Len(xs) |-> <<Padded(xs[k]), "", TRUE>>]

\* the replacements of removeOcrArtifacts in order, each as
\* <<pattern, replacement, g flag>>.  The one of [\u{1F300}-\u{1F9FF}]
\* (line 366) has no entry: no character of the alphabet is in its class,
\* so it leaves every text of the alphabet as it is.
OcrReplacements ==
    Removals(<<Cat(Cat3(Lit("["), Opt(Lit("\\")), Opt(Lit("/"))),
                   Cat(Opt(Lit("/")), Lit("]"))),
               Lit("[>]"),
               Lit("[>>]"),
               Lit("[<]"),
               Lit("[<<]"),
               Lit("(>>)"),
               Lit("(<<)"),
               Lit("[]"),
               Lit("()"),
               Lit("{}"),
               Lit("®"),
               Lit("©"),
               Lit(TradeMark),
               Lit(ServiceMark),
               Lit("[Vv]"),
               Lit("(Vv)"),
               Cat3(Lit("["), SymbolRun, Lit("]")),
               Cat3(Lit("("), SymbolRun, Lit(")")),
               Cat3(Lit("("), Cls(Digits), Lit(")")),
               Lit("@@)"),
               Plus(Lit("@"))>>)
    \o <<<<Cat3(Plus(Cls(WhiteSpace)), Cls(UpperCase), Plus(Cls(WhiteSpace))), " ", TRUE>>,
         <<Cat3(Plus(Cls(WhiteSpace)), Cls(UpperCase), Eol), "", TRUE>>,
         <<Padded(Cls(Shapes)), "", TRUE>>,
         <<Padded(Cls(Stars)), "", TRUE>>,
         <<Cls(MiscSymbols), "", TRUE>>,
         <<Cls(Dingbats), "", TRUE>>,
         <<Cat(Cat3(WS0, Lit(","), WS0), Lit(",")), ",", TRUE>>,
         <<Cat3(Cls(WhiteSpace), Cls(WhiteSpace), WS0), " ", TRUE>>,
         <<Cat3(Lit(","), WS0, Eol), "", FALSE>>>>

removeOcrArtifacts(text) == Trim(ApplyReplacements(text, OcrReplacements, 1))

\* the two replacements of cleanFoodItem
ItemReplacements ==
    <<<<Cat3(Bol, Cls({"-", Bullet, "*"}), WS0), "", FALSE>>,
      <<Cat(Cat3(WS0, Lit("@"), WS0), Eol), "", FALSE>>>>

\* cleanFoodItem without the call of removeOcrArtifacts
cleanFoodItemNoArtifacts(line) ==
    Trim(ApplyReplacements(removeNoticeSection(line), ItemReplacements, 1))

cleanFoodItem(item) ==
    Trim(ApplyReplacements(removeOcrArtifacts(removeNoticeSection(item)),
                           ItemReplacements, 1))

(***************************************************************************)
(* parseCourses, normalizeCourseType                                       *)
(***************************************************************************)

\* X\s*-.*
DietLabelAny(x) == Cat3(Lit(x), WS0, Cat(Lit("-"), Star(Dot)))

\* the patterns of isNoticeLine in parseCourses, all with the i flag
NoticeLinePatterns ==
    <<Cat(Lit("Notice"), Opt(Lit("*"))),
      Cat(Opt(Lit("*")), Lit("Notice")),
      Cat(Cat3(Lit("The salad bar"), Opt(Lit("s")), LazyPlus(Dot)), Lit("remain")),
      Lit("Symbols to identify"),
      Cat3(Bol, Lit("Salad Bar"), Eol),
      Lit("Daily choice of Mixed Greens"),
      Lit("Diced Cucumbers"),
      Lit("Carrot Sticks"),
      Lit("Sunflower seed"),
      Lit("Alternating Dressing"),
      Lit("Selection of Deli Meats"),
      CatAll([k \in 1..3 |-> DietLabelAny(<<"Vegetarian", "Vegan", "Halal">>[k])]
             \o <<Lit("Gluten Free"), WS0, Lit("-")>>),
      Cat3(Bol, Lit("Deli Bar"), Eol),
      Cat3(Bol, Lit("Dressings"), Eol)>>

isNoticeLine(trimmedLine) == SomeTest(NoticeLinePatterns, trimmedLine, TRUE)

\* COURSE_TYPE_PATTERNS.some(pattern =>
\*     trimmedLine.toLowerCase().includes(pattern.toLowerCase()))
isCourseType(trimmedLine) ==
    LET Some(patterns, line) == \E k \in 1..Len(patterns) : Includes(line, patterns[k])
    IN  Some(Folded(COURSE_TYPE_PATTERNS, TRUE), ToLower(trimmedLine))

\* normalizeCourseType with the test for pasta before the test for salad
normalizeCourseTypePastaFirst(courseType) ==
    LET Type(normalized, lower) ==
            IF Includes(lower, "entrée") \/ Includes(lower, "entree") THEN "Entrée"
            ELSE IF Includes(lower, "international") \/ Includes(lower, "intemational")
            THEN "International Station"
            ELSE IF Includes(lower, "pasta") THEN "Pasta Station"
            ELSE IF Includes(lower, "salad") THEN "Salads of the Day"
            ELSE IF Includes(lower, "soup") THEN "Soups of the Day"
            ELSE IF Includes(lower, "dessert") THEN "Dessert"
            ELSE normalized
        Normalized(normalized) == Type(normalized, ToLower(normalized))
    IN  Normalized(Trim(courseType))

normalizeCourseType(courseType) ==
    LET Type(normalized, lower) ==
            IF Includes(lower, "entrée") \/ Includes(lower, "entree") THEN "Entrée"
            ELSE IF Includes(lower, "international") \/ Includes(lower, "intemational")
            THEN "International Station"
            ELSE IF Includes(lower, "salad") THEN "Salads of the Day"
            ELSE IF Includes(lower, "soup") THEN "Soups of the Day"
            ELSE IF Includes(lower, "pasta") THEN "Pasta Station"
            ELSE IF Includes(lower, "dessert") THEN "Dessert"
            ELSE normalized
        Normalized(normalized) == Type(normalized, ToLower(normalized))
    IN  Normalized(Trim(courseType))

\* PushCourse without the test currentFoodItems.length > 0
PushCourseAlways(st) ==
    IF st.currentCourseType # ""
    THEN [st EXCEPT !.courses = Append(@, [id |-> st.courseId,
                                            courseType |-> st.currentCourseType,
                                            foodItems |-> Join(st.currentFoodItems, ", ")]),
                    !.courseId = @ + 1]
    ELSE st

\* PushCourse with courseId++ also for a course that is dropped
PushCourseCountDropped(st) ==
    IF st.currentCourseType # "" /\ Len(st.currentFoodItems) > 0
    THEN [st EXCEPT !.courses = Append(@, [id |-> st.courseId,
                                            courseType |-> st.currentCourseType,
                                            foodItems |-> Join(st.currentFoodItems, ", ")]),
                    !.courseId = @ + 1]
    ELSE IF st.currentCourseType # "" THEN [st EXCEPT !.courseId = @ + 1]
    ELSE st

\* courses.push({id: courseId++, courseType, foodItems: join(', ')}) under
\* the guard currentCourseType && currentFoodItems.length > 0
PushCourse(st) ==
    IF st.currentCourseType # "" /\ Len(st.currentFoodItems) > 0
    THEN [st EXCEPT !.courses = Append(@, [id |-> st.courseId,
                                            courseType |-> st.currentCourseType,
                                            foodItems |-> Join(st.currentFoodItems, ", ")]),
                    !.courseId = @ + 1]
    ELSE st

\* PushItem without the guard if (cleanedItem)
PushItemUnchecked(st, trimmedLine) ==
    [st EXCEPT !.currentFoodItems = Append(@, cleanFoodItem(trimmedLine))]

\* PushItem with unshift in place of push
PushItemFirst(st, trimmedLine) ==
    LET Push(cleanedItem) ==
            IF cleanedItem # "" THEN [st EXCEPT !.currentFoodItems = <<cleanedItem>> \o @]
            ELSE st
    IN  Push(cleanFoodItem(trimmedLine))

\* currentFoodItems.push(cleanedItem) under the guard if (cleanedItem)
PushItem(st, trimmedLine) ==
    LET Push(cleanedItem) ==
            IF cleanedItem # "" THEN [st EXCEPT !.currentFoodItems = Append(@, cleanedItem)]
            ELSE st
    IN  Push(cleanFoodItem(trimmedLine))

\* CourseStep without the branch for a line before any course-type header
CourseStepLabelledOnly(st, trimmedLine) ==
    IF isCourseType(trimmedLine)
    THEN [PushCourse(st) EXCEPT !.currentCourseType = normalizeCourseType(trimmedLine),
                                !.currentFoodItems = <<>>]
    ELSE IF trimmedLine # "" /\ st.currentCourseType # ""
    THEN PushItem(st, trimmedLine)
    ELSE st

\* CourseStep with no currentFoodItems = [] at a course-type header
CourseStepKeepItems(st, trimmedLine) ==
    IF isCourseType(trimmedLine)
    THEN [PushCourse(st) EXCEPT !.currentCourseType = normalizeCourseType(trimmedLine)]
    ELSE IF trimmedLine # ""
    THEN PushItem(IF st.currentCourseType # "" THEN st
                  ELSE [st EXCEPT !.currentCourseType = "Main Items"],
                  trimmedLine)
    ELSE st

\* the body of the loop of parseCourses after the notice check; the two
\* branches for a food item differ in the course type they leave
CourseStep(st, trimmedLine) ==
    IF isCourseType(trimmedLine)
    THEN [PushCourse(st) EXCEPT !.currentCourseType = normalizeCourseType(trimmedLine),
                                !.currentFoodItems = <<>>]
    ELSE IF trimmedLine # ""
    THEN PushItem(IF st.currentCourseType # "" THEN st
                  ELSE [st EXCEPT !.currentCourseType = "Main Items"],
                  trimmedLine)
    ELSE st

RECURSIVE CourseLoopSkipNotice(_, _, _)
\* CourseLoop with continue in place of break
CourseLoopSkipNotice(st, lines, k) ==
    IF k > Len(lines) THEN st
    ELSE LET Line(trimmedLine) ==
                 IF isNoticeLine(trimmedLine) THEN CourseLoopSkipNotice(st, lines, k + 1)
                 ELSE CourseLoopSkipNotice(CourseStep(st, trimmedLine), lines, k + 1)
         IN  Line(Trim(lines[k]))

RECURSIVE CourseLoopTypeFirst(_, _, _)
\* CourseLoop with the course-type check before the notice check
CourseLoopTypeFirst(st, lines, k) ==
    IF k > Len(lines) THEN st
    ELSE LET Line(trimmedLine) ==
                 IF ~isCourseType(trimmedLine) /\ isNoticeLine(trimmedLine) THEN st
                 ELSE CourseLoopTypeFirst(CourseStep(st, trimmedLine), lines, k + 1)
         IN  Line(Trim(lines[k]))

RECURSIVE CourseLoop(_, _, _)
\* the loop over the lines; a notice line breaks out of it
CourseLoop(st, lines, k) ==
    IF k > Len(lines) THEN st
    ELSE LET Line(trimmedLine) ==
                 IF isNoticeLine(trimmedLine) THEN st
                 ELSE CourseLoop(CourseStep(st, trimmedLine), lines, k + 1)
         IN  Line(Trim(lines[k]))

parseCourses(lines) ==
    PushCourse(CourseLoop([courses |-> <<>>, currentCourseType |-> "",
                           currentFoodItems |-> <<>>, courseId |-> 0],
                          lines, 1)).courses

(***************************************************************************)
(* parseDayBlock                                                           *)
(***************************************************************************)

\* parseDayBlock after extractTimeInfo, which gave timeInfo for the first
\* of the lines
MenuDayOf(timeInfo, lines, dayIndex) ==
    IF timeInfo = NULL THEN NULL
    ELSE [id |-> dayIndex,
          timeOfDay |-> timeInfo.timeOfDay,
          startTime |-> timeInfo.startTime,
          endTime |-> timeInfo.endTime,
          courses |-> parseCourses(Tail(lines))]

\* parseDayBlock on RegExp objects whose lastIndex is 0
parseDayBlock(dayBlock, dayIndex) ==
    LET Block(lines) ==
            IF Len(lines) = 0 THEN NULL
            ELSE MenuDayOf(extractTimeInfo(lines[1]), lines, dayIndex)
    IN  Block(FilterNonEmpty(MapTrim(Split(dayBlock, "\n"))))

(***************************************************************************)
(* Inputs                                                                  *)
(***************************************************************************)

\* the longest body (lines after the first) of a generated one-block text
MaxBody == 3
\* the largest number of sample blocks in a generated text
MaxBlocks == 3

\* the first line of the blocks whose body is varied
CoreHeaders == {"Monday Lunch 11:20am - 1pm"}

\* first lines of a block that are tried with the short bodies
OtherHeaders ==
    {"Breakfast 7:00am",
     "Monday",
     "Wednesday 12:00pm",
     "Friday Brunch or Lunch 10:30am - 2pm",
     "Sunday Dinner, not Breakfast 6:00pm",
     "Saturday *Notice 9:00am-10",
     "TUESDAY DINNER 5:30PM - 7",
     "Thursday lunch",
     "Lunch 11am - 1pm",
     "Dinner 5pm"}

BodyLines ==
    {"Entrée", "Dessert", "Pasta", "[>] Fresh Fruit ®", "[/]",
     "Notice: see posted allergen list"}

\* the sequences over S of length at most n
SeqsUpTo(S, n) == UNION {[1..k -> S] : k \in 0..n}

OneBlockTexts ==
    {Join(<<h>> \o b, "\n") : h \in CoreHeaders, b \in SeqsUpTo(BodyLines, MaxBody)}
    \cup
    {Join(<<h>> \o b, "\n") : h \in OtherHeaders, b \in SeqsUpTo({"Pasta", "Dessert"}, 1)}

SampleBlocks ==
    {"Weekly Menu",
     "Wednesday Lunch 11:20am - 1pm\nEntrée\nPasta",
     "Monday Breakfast 7:00am\r\n \nEggs\r",
     "Tuesday\nSoup",
     "  Thursday Dinner 5:30pm - 7pm "}

ManyBlockTexts ==
    {Join(bs, "\n") : bs \in SeqsUpTo(SampleBlocks, MaxBlocks)}

\* Scenario A and Scenario C of the specification, and Scenario A with the
\* meal header on the weekday line
ScenarioA == "Monday\nLunch 11:20am - 1pm\nEntrée\nPasta\nChicken\n"
ScenarioA1 == "Monday Lunch 11:20am - 1pm\nEntrée\nPasta\nChicken\n"
ScenarioC ==
    "Monday Lunch 11:20am - 1pm\nEntrée\nPasta\nChicken\nNotice: see posted allergen list\nDessert\nCake"

\* texts with a notice line that holds a course-type label, with weekday
\* names in capitals and inside an item line, and with lines of artifacts
OtherTexts ==
    {"Monday Lunch 11:20am - 1pm\nEntrée\nPasta\nDessert Notice*\nCake",
     "Monday Lunch 11:20am - 1pm\nDessert Notice*\nCake",
     "Friday Dinner 5:30pm - 7pm\nSoups of the Day\nLentil\nPasta Station *Notice\nPenne",
     "monday lunch 11:20am - 1pm\nPasta\n\nTUESDAY DINNER 5:30PM - 7\nRice, on Sunday only\n \nfriday\n",
     "Monday Lunch 11:20am - 1pm\nEntrée\n® " \o BlackCircle \o "\nPasta\n@@\n[>] [/]\nChicken"}

Texts ==
    OneBlockTexts \cup ManyBlockTexts \cup {ScenarioA, ScenarioA1, ScenarioC}
    \cup OtherTexts

(***************************************************************************)
(* State                                                                   *)
(***************************************************************************)

VARIABLES
    pc,          \* where the caller of MenuParser.parseMenu is
    ocrText,     \* the argument of parseMenu
    dayBlocks,   \* const dayBlocks
    index,       \* the index of the forEach callback that runs next
    parsedMenu,  \* const parsedMenu: ParsedMenu, an object keyed by day index
    menuObject,  \* which object parsedMenu names, 0 outside a call
    lastIndex,   \* the lastIndex of the RegExp objects of the static tables
    previous,    \* the argument and the result (the object and what it
                 \* holds) of an earlier call that the caller still holds
    item,        \* the argument of cleanFoodItem
    cleanedItem, \* what cleanFoodItem returned for it
    grokPc,      \* where the caller of GrokMenuParser.parseMenu is
    content,     \* choice.message.content of the API response
    jsonString,  \* let jsonString
    attempts,    \* the calls of JSON.parse of the call so far
    outcome,     \* what the call returned or threw
    xaiApiKey,   \* process.env.XAI_API_KEY
    authorization, \* the Authorization header of the request that fetch has
                 \* sent and that is not answered yet
    response,    \* const response, while the call waits for its body
    coursePc,    \* where the caller of MenuParser.parseCourses is
    courseLines, \* the argument lines of parseCourses
    lineIndex,   \* the position in lines of the line the loop reads next
    courseLocals,\* const courses, let currentCourseType, currentFoodItems
                 \* and courseId
    typeLine,    \* the argument of normalizeCourseType
    typeResult,  \* what normalizeCourseType returned for it
    textPc,      \* where the caller of MenuParser.cleanText is
    textIn,      \* the argument text of cleanText
    textOut,     \* what cleanText returned for it
    mounted,     \* a component that calls useUserPermissions is mounted
    user,        \* user?.uid of useAuth(), "" when no user is signed in
    effectPending, \* the effect of useUserPermissions is to run: after the
                 \* first render and after a render with another user?.uid
    permissions, \* the state const [permissions, setPermissions]
    fetches,     \* the calls of fetchUserPermissions that wait for getDoc
    started,     \* the calls of fetchUserPermissions that reached getDoc
    lastSet,     \* what the last call of setPermissions was made for: the
                 \* uid of its closure, the snapshots it held, whether it
                 \* was made in the catch block
    isProcessing, \* the state const [isProcessing, setIsProcessing] of
                 \* AddMenuDialog
    dialog,      \* the call of extractTextFromFiles: the await it waits at,
                 \* its files, let i, allExtractedTexts (as the positions
                 \* of the files the texts came from), the files whose
                 \* catch block ran, const numPages and let pageNum of the
                 \* PDF file that is read
    navigated    \* router.push and onClose were called

menuVars == <<pc, ocrText, dayBlocks, index, parsedMenu, menuObject, lastIndex, previous>>
itemVars == <<item, cleanedItem>>
grokVars == <<grokPc, content, jsonString, attempts, outcome, xaiApiKey, authorization, response>>

courseVars == <<coursePc, courseLines, lineIndex, courseLocals, typeLine, typeResult>>
textVars == <<textPc, textIn, textOut>>
permVars == <<mounted, user, effectPending, permissions, fetches, started, lastSet>>
dialogVars == <<isProcessing, dialog, navigated>>
laterVars == <<courseVars, textVars, permVars, dialogVars>>

otherThanCourses == <<menuVars, itemVars, grokVars, textVars, permVars, dialogVars>>
otherThanText == <<menuVars, itemVars, grokVars, courseVars, permVars, dialogVars>>
otherThanPermissions == <<menuVars, itemVars, grokVars, courseVars, textVars, dialogVars>>
otherThanDialog == <<menuVars, itemVars, grokVars, courseVars, textVars, permVars>>

vars == <<menuVars, itemVars, grokVars, laterVars>>

(***************************************************************************)
(* The RegExp objects of the static tables                                 *)
(***************************************************************************)

\* the flags of /Monday/i ... and of /breakfast/i ... with the g flag added
GlobalFlags == {"g", "i"}

\* the flags of the patterns of DAY_PATTERNS and TIME_OF_DAY_PATTERNS
StaticFlags == {"i"}

\* RegExp.prototype.test on a RegExp object with these flags whose lastIndex
\* is li: <<the match, the lastIndex the call leaves>>. Only a pattern with
\* the g flag starts at lastIndex and writes it.
ExecStatic(re, flags, s, li) ==
    LET Out(m) == <<m, IF "g" \notin flags THEN li
                       ELSE IF m = <<>> THEN 0 ELSE m[2] - 1>>
    IN  Out(IF "g" \in flags /\ li > Len(s) THEN <<>>
            ELSE SearchFrom(re, s, IF "g" \in flags THEN li + 1 ELSE 1, "i" \in flags))

\* SomeStatic without the break: every pattern is tested, and the last one
\* that matches wins
SomeStaticLast(patterns, flags, s, lis, k) ==
    LET Out(rs) ==
            [at |-> Max({0} \cup {j \in k..Len(patterns) : rs[j][1] # <<>>}),
             lastIndex |-> [j \in 1..Len(lis) |-> IF j >= k THEN rs[j][2] ELSE lis[j]]]
    IN  Out(<<>> \o [j \in 1..Len(patterns) |-> ExecStatic(patterns[j], flags, s, lis[j])])

RECURSIVE SomeStatic(_, _, _, _, _)
\* patterns.some(pattern => pattern.test(s)), or a loop over the patterns
\* that breaks at the first match, on RegExp objects with these flags whose
\* lastIndex values are lis (one for each pattern): the position in
\* patterns of the first one that matches (0 when none does) and the
\* lastIndex values the tests leave
SomeStatic(patterns, flags, s, lis, k) ==
    IF k > Len(patterns) THEN [at |-> 0, lastIndex |-> lis]
    ELSE LET Out(r) ==
                 IF r[1] # <<>> THEN [at |-> k, lastIndex |-> [lis EXCEPT ![k] = r[2]]]
                 ELSE SomeStatic(patterns, flags, s, [lis EXCEPT ![k] = r[2]], k + 1)
         IN  Out(ExecStatic(patterns[k], flags, s, lis[k]))

\* StaticDayBlockStep in which a blank line too closes the block
DayBlockStepBlankSplit(st, line, flags) ==
    LET Push(cur, trimmedLine) ==
            IF trimmedLine # "" THEN Append(cur, trimmedLine) ELSE cur
        Step(trimmedLine, flush, lis) ==
            [dayBlocks |-> IF flush
                           THEN Append(st.dayBlocks, Join(st.currentBlock, "\n"))
                           ELSE st.dayBlocks,
             currentBlock |-> Push(IF flush THEN <<>> ELSE st.currentBlock,
                                   trimmedLine),
             lastIndex |-> lis]
        Line(trimmedLine) ==
            LET Tested(some) ==
                    Step(trimmedLine,
                         (some.at # 0 \/ trimmedLine = "") /\ Len(st.currentBlock) > 0,
                         some.lastIndex)
            IN  Tested(SomeStatic(DAY_PATTERNS, flags, trimmedLine, st.lastIndex, 1))
    IN  Line(Trim(line))

\* one iteration of the loop of extractDayBlocks over the lines, run on the
\* RegExp objects of DAY_PATTERNS; st = [dayBlocks, currentBlock, lastIndex]
StaticDayBlockStep(st, line, flags) ==
    LET Push(cur, trimmedLine) ==
            IF trimmedLine # "" THEN Append(cur, trimmedLine) ELSE cur
        Step(trimmedLine, flush, lis) ==
            [dayBlocks |-> IF flush
                           THEN Append(st.dayBlocks, Join(st.currentBlock, "\n"))
                           ELSE st.dayBlocks,
             currentBlock |-> Push(IF flush THEN <<>> ELSE st.currentBlock,
                                   trimmedLine),
             lastIndex |-> lis]
        Line(trimmedLine) ==
            LET Tested(some) ==
                    Step(trimmedLine, some.at # 0 /\ Len(st.currentBlock) > 0,
                         some.lastIndex)
            IN  Tested(SomeStatic(DAY_PATTERNS, flags, trimmedLine, st.lastIndex, 1))
    IN  Line(Trim(line))

RECURSIVE StaticDayBlockLoop(_, _, _, _)
StaticDayBlockLoop(st, lines, k, flags) ==
    IF k > Len(lines) THEN st
    ELSE StaticDayBlockLoop(StaticDayBlockStep(st, lines[k], flags), lines, k + 1, flags)

\* extractDayBlocks run on the RegExp objects of DAY_PATTERNS, whose
\* lastIndex values are lis: the blocks and the lastIndex values it leaves
StaticExtractDayBlocks(text, flags, lis) ==
    LET Last(st) ==
            [dayBlocks |-> IF Len(st.currentBlock) > 0
                           THEN Append(st.dayBlocks, Join(st.currentBlock, "\n"))
                           ELSE st.dayBlocks,
             lastIndex |-> st.lastIndex]
    IN  Last(StaticDayBlockLoop([dayBlocks |-> <<>>, currentBlock |-> <<>>,
                                 lastIndex |-> lis],
                                Split(text, "\n"), 1, flags))

\* the RegExp objects of TIME_OF_DAY_PATTERNS
TimeOfDayRegExps ==
    <<>> \o [k \in 1..Len(TIME_OF_DAY_PATTERNS) |-> TIME_OF_DAY_PATTERNS[k].pattern]

\* parseDayBlock run on the RegExp objects of TIME_OF_DAY_PATTERNS, whose
\* lastIndex values are lis: the MenuDay (or null) and the lastIndex values
\* the loop of extractTimeInfo leaves
StaticParseDayBlock(dayBlock, dayIndex, flags, lis) ==
    LET Found(headerLine, lines, first) ==
            [menuDay |-> MenuDayOf(TimeInfoOf(headerLine,
                                              IF first.at = 0 THEN "lunch"
                                              ELSE TIME_OF_DAY_PATTERNS[first.at].value),
                                   lines, dayIndex),
             lastIndex |-> first.lastIndex]
        Block(lines) ==
            IF Len(lines) = 0 THEN [menuDay |-> NULL, lastIndex |-> lis]
            ELSE Found(lines[1], lines,
                       SomeStatic(TimeOfDayRegExps, flags, lines[1], lis, 1))
    IN  Block(FilterNonEmpty(MapTrim(Split(dayBlock, "\n"))))

\* every RegExp object is created with lastIndex 0
FreshLastIndex ==
    [day |-> [k \in 1..Len(DAY_PATTERNS) |-> 0],
     timeOfDay |-> [k \in 1..Len(TIME_OF_DAY_PATTERNS) |-> 0]]

(***************************************************************************)
(* parseMenu                                                               *)
(***************************************************************************)

\* const parsedMenu: ParsedMenu = {}
EmptyMenu == [k \in {} |-> NULL]

\* the objects that can be told apart: the one a call builds and the one
\* the caller holds; 0 stands for no object
Objects == {1, 2}

\* the caller holds no earlier result
NoCall == [text |-> "", menu |-> EmptyMenu, object |-> 0]

\* const parsedMenu = {} makes a new object: it is none the caller holds
NewObject(held) == CHOOSE o \in Objects : o # held.object

\* parsedMenu[index] = menuDay writes to the object that parsedMenu names:
\* what the caller holds changes when it is that object
Held(held, object, menu) ==
    IF held.object = object THEN [held EXCEPT !.menu = menu] ELSE held

\* StoreDay without the test if (menuDay)
StoreDayUnchecked(menu, i, menuDay) ==
    [k \in DOMAIN menu \cup {i} |-> IF k = i THEN menuDay ELSE menu[k]]

\* StoreDay with the next free key in place of the forEach index
StoreDayAtNextKey(menu, i, menuDay) ==
    IF menuDay # NULL
    THEN [k \in DOMAIN menu \cup {Cardinality(DOMAIN menu)} |->
             IF k = Cardinality(DOMAIN menu) THEN menuDay ELSE menu[k]]
    ELSE menu

\* if (menuDay) { parsedMenu[index] = menuDay; }
StoreDay(menu, i, menuDay) ==
    IF menuDay # NULL
    THEN [k \in DOMAIN menu \cup {i} |-> IF k = i THEN menuDay ELSE menu[k]]
    ELSE menu

RECURSIVE ForEachFrom(_, _, _)
\* dayBlocks.forEach((dayBlock, index) => ...) from index i on
ForEachFrom(blocks, i, menu) ==
    IF i >= Len(blocks) THEN menu
    ELSE ForEachFrom(blocks, i + 1, StoreDay(menu, i, parseDayBlock(blocks[i + 1], i)))

\* parseMenu as a function of its argument
parseMenu(text) == ForEachFrom(extractDayBlocks(cleanText(text)), 0, EmptyMenu)

\* no call of cleanFoodItem and none of GrokMenuParser.parseMenu has begun
ItemIdle == item = "" /\ cleanedItem = ""
GrokIdle ==
    /\ grokPc = "idle"
    /\ content = ""
    /\ jsonString = ""
    /\ attempts = 0
    /\ outcome = NULL
    /\ authorization = NULL
    /\ response = NULL

\* the locals of parseCourses at its first line
FirstLocals ==
    [courses |-> <<>>, currentCourseType |-> "", currentFoodItems |-> <<>>, courseId |-> 0]

CoursesIdle ==
    /\ coursePc = "idle"
    /\ courseLines = <<>>
    /\ lineIndex = 0
    /\ courseLocals = FirstLocals
    /\ typeLine = ""
    /\ typeResult = ""

TextIdle == textPc = "idle" /\ textIn = "" /\ textOut = ""

\* no user is signed in
NoUser == ""

\* a getDoc that has not settled
NoSnap == [pending |-> TRUE]

\* setPermissions has not been called
NeverSet ==
    [set |-> FALSE, uid |-> NoUser, food |-> NoSnap, sports |-> NoSnap, caught |-> FALSE]

\* useState<UserPermissions>({canManageFood: false, canManageSports: false,
\* loading: true}), before the component is mounted
PermissionsInitial ==
    /\ mounted = FALSE
    /\ user = NoUser
    /\ effectPending = FALSE
    /\ permissions = [canManageFood |-> [t |-> "boolean", v |-> FALSE],
                      canManageSports |-> [t |-> "boolean", v |-> FALSE],
                      loading |-> TRUE]
    /\ fetches = [f \in {} |-> NoSnap]
    /\ started = 0
    /\ lastSet = NeverSet

\* no call of extractTextFromFiles
NoExtraction ==
    [pc |-> "idle", version |-> "", files |-> <<>>, i |-> 0, texts |-> <<>>, failed |-> {},
     numPages |-> 0, pageNum |-> 0]

\* useState(false) and no call of extractTextFromFiles
DialogIdle ==
    /\ isProcessing = FALSE
    /\ dialog = NoExtraction
    /\ navigated = FALSE

Init ==
    /\ pc = "idle"
    /\ ocrText = ""
    /\ dayBlocks = <<>>
    /\ index = 0
    /\ parsedMenu = EmptyMenu
    /\ menuObject = 0
    /\ lastIndex = FreshLastIndex
    /\ previous = NoCall
    /\ ItemIdle
    /\ GrokIdle
    /\ xaiApiKey = Undefined
    /\ CoursesIdle
    /\ TextIdle
    /\ PermissionsInitial
    /\ DialogIdle

\* parseMenu is called: cleanText, extractDayBlocks and the empty parsedMenu
ParseMenu(text) ==
    /\ pc = "idle"
    /\ pc' = "forEach"
    /\ ocrText' = text
    /\ LET With(extracted) ==
               /\ dayBlocks' = extracted.dayBlocks
               /\ lastIndex' = [lastIndex EXCEPT !.day = extracted.lastIndex]
       IN  With(StaticExtractDayBlocks(cleanText(text), StaticFlags, lastIndex.day))
    /\ index' = 0
    /\ parsedMenu' = EmptyMenu
    /\ menuObject' = NewObject(previous)
    /\ UNCHANGED <<previous, itemVars, grokVars, laterVars>>

\* ForEachBlock that leaves the loop at a block parseDayBlock rejects
ForEachBlockStopAtBad ==
    /\ pc = "forEach"
    /\ index < Len(dayBlocks)
    /\ LET With(parsed) ==
               /\ parsedMenu' = StoreDay(parsedMenu, index, parsed.menuDay)
               /\ lastIndex' = [lastIndex EXCEPT !.timeOfDay = parsed.lastIndex]
               /\ index' = IF parsed.menuDay = NULL THEN Len(dayBlocks) ELSE index + 1
       IN  With(StaticParseDayBlock(dayBlocks[index + 1], index, StaticFlags,
                                    lastIndex.timeOfDay))
    /\ previous' = Held(previous, menuObject, parsedMenu')
    /\ UNCHANGED <<pc, ocrText, dayBlocks, menuObject, itemVars, grokVars, laterVars>>

\* one call of the forEach callback
ForEachBlock ==
    /\ pc = "forEach"
    /\ index < Len(dayBlocks)
    /\ LET With(parsed) ==
               /\ parsedMenu' = StoreDay(parsedMenu, index, parsed.menuDay)
               /\ lastIndex' = [lastIndex EXCEPT !.timeOfDay = parsed.lastIndex]
       IN  With(StaticParseDayBlock(dayBlocks[index + 1], index, StaticFlags,
                                    lastIndex.timeOfDay))
    /\ previous' = Held(previous, menuObject, parsedMenu')
    /\ index' = index + 1
    /\ UNCHANGED <<pc, ocrText, dayBlocks, menuObject, itemVars, grokVars, laterVars>>

\* return parsedMenu
Return ==
    /\ pc = "forEach"
    /\ index = Len(dayBlocks)
    /\ pc' = "returned"
    /\ UNCHANGED <<ocrText, dayBlocks, index, parsedMenu, menuObject, lastIndex, previous,
                   itemVars, grokVars, laterVars>>

\* the caller has taken the result and drops it; the locals of the call are
\* gone
Release ==
    /\ pc = "returned"
    /\ pc' = "idle"
    /\ ocrText' = ""
    /\ dayBlocks' = <<>>
    /\ index' = 0
    /\ parsedMenu' = EmptyMenu
    /\ menuObject' = 0
    /\ UNCHANGED <<lastIndex, previous, itemVars, grokVars, laterVars>>

\* the caller keeps the result, the object that parsedMenu names, while it
\* calls parseMenu again
Keep ==
    /\ pc = "returned"
    /\ pc' = "idle"
    /\ previous' = [text |-> ocrText, menu |-> parsedMenu, object |-> menuObject]
    /\ ocrText' = ""
    /\ dayBlocks' = <<>>
    /\ index' = 0
    /\ parsedMenu' = EmptyMenu
    /\ menuObject' = 0
    /\ UNCHANGED <<lastIndex, itemVars, grokVars, laterVars>>

Next ==
    \/ \E text \in Texts : ParseMenu(text)
    \/ ForEachBlock
    \/ Return
    \/ Release

Spec == Init /\ [][Next]_vars

\* WF_vars(ForEachBlock), written with the guard of ForEachBlock in place of
\* ENABLED <<ForEachBlock>>_vars: the step always changes index, so the two
\* are the same predicate
ForEachBlockFair ==
    \/ []<>~(pc = "forEach" /\ index < Len(dayBlocks))
    \/ []<><<ForEachBlock>>_vars

\* parseMenu is synchronous: once called it runs to its return
FairSpec == Spec /\ ForEachBlockFair /\ WF_vars(Return)

(***************************************************************************)
(* parseMenu called again while the caller holds an earlier result         *)
(***************************************************************************)

\* the largest number of blocks of a text of a session
MaxSessionBlocks == 2

SessionBlocks ==
    {"Wednesday Lunch 11:20am - 1pm\nEntrée\nPasta",
     "Monday Breakfast or Dinner 7:00am\nEggs"}

SessionTexts ==
    {Join(bs, "\n") : bs \in SeqsUpTo(SessionBlocks, MaxSessionBlocks)}
    \cup {ScenarioA, ScenarioC, "Weekly Menu\nTuesday\nSoup\nFriday Brunch 10:30am",
          "Monday\nMonday Lunch 12pm\nSoup"}

\* parseMenu is synchronous and JavaScript runs one call at a time: a call
\* begins only when no other call is under way
SessionNext ==
    \/ \E text \in SessionTexts : ParseMenu(text)
    \/ ForEachBlock
    \/ Return
    \/ Keep

SessionSpec == Init /\ [][SessionNext]_vars

(***************************************************************************)
(* cleanFoodItem called on its own                                         *)
(***************************************************************************)

\* the largest number of artifact tokens on each side of a food name
MaxWrap == 1

\* tokens of the artifact classes: bracket tokens, trademark and copyright
\* glyphs, runs of @, decorative bullets
ArtifactTokens == {"[>]", "[/]", "®", "@@", BlackCircle}

FoodNames == {"Fresh Fruit", "Pasta", "Mac and Cheese, hot"}

\* a food name, or nothing, between artifact tokens, with and without spaces
\* between them
WrappedItems ==
    {Join(before \o <<name>> \o after, sep) :
        before \in SeqsUpTo(ArtifactTokens, MaxWrap),
        name \in FoodNames \cup {""},
        after \in SeqsUpTo(ArtifactTokens, MaxWrap),
        sep \in {"", " "}}

\* lines with a marker more than once, with nested brackets, with letters
\* and commas that the removals bring together
OddItems ==
    {"**Pasta", "- - Pasta", "* - Rice", "[[>]] Fruit", "(()) Fruit", "[[]]",
     "Pasta @ @", "Rice ,, B", "Beef A B C", "Soup (1) A B C", "Fruit (®)",
     "Beef*Notice, pork", "Rice, , ,", "- @", "Tea [" \o "®" \o "]"}

\* food names between the other glyphs and bracket tokens
OtherWrappedItems ==
    {"© Pasta " \o TradeMark, ServiceMark \o "Fresh Fruit [>>]", "(<<) Pasta {}",
     "[\\/] Fresh Fruit [--]", "[Vv] Pasta (1)", "@@) Pasta " \o BlackSquare,
     BlackStar \o " Fresh Fruit " \o CheckMark \o VS16, "- Pasta @",
     Bullet \o " Fresh Fruit " \o Scissors}

Items == WrappedItems \cup OtherWrappedItems \cup OddItems

\* cleanFoodItem(x), the first call
CleanFoodItem(x) ==
    /\ ItemIdle
    /\ item' = x
    /\ cleanedItem' = cleanFoodItem(x)
    /\ UNCHANGED <<menuVars, grokVars, laterVars>>

\* cleanFoodItem on what it returned
CleanAgain ==
    /\ cleanedItem # item
    /\ item' = cleanedItem
    /\ cleanedItem' = cleanFoodItem(cleanedItem)
    /\ UNCHANGED <<menuVars, grokVars, laterVars>>

SanitizerNext ==
    \/ \E x \in Items : CleanFoodItem(x)
    \/ CleanAgain

SanitizerSpec == Init /\ [][SanitizerNext]_vars

(***************************************************************************)
(* The Number of a JSON number: the double nearest to its decimal value,   *)
(* and Number.prototype.toString of that double.  The arithmetic is exact: *)
(* a natural number of any size is the sequence of its digits in base      *)
(* 10000, the lowest first, with no zero at the top; 0 is << >>.           *)
(***************************************************************************)

\* the digits of the number without the zeros before and after them, and
\* the power n of ten with which the number is 0.digits times 10^n
SignificantDigits(all) ==
    LET Between(at) == IF at = {} THEN "" ELSE SubSeq(all, Min(at), Max(at))
    IN  Between({j \in 1..Len(all) : CharAt(all, j) # "0"})
LeadingZeros(all) ==
    Cardinality({j \in 1..Len(all) : \A k \in 1..j : CharAt(all, k) = "0"})

RECURSIVE NatOf(_)
\* the number that the digits stand for
NatOf(digits) ==
    IF digits = "" THEN 0
    ELSE 10 * NatOf(SubSeq(digits, 1, Len(digits) - 1))
         + (IndexOfFrom("0123456789", CharAt(digits, Len(digits)), 1) - 1)

\* the exponent of the lexeme, 0 when it has none; of an exponent beyond
\* every double the first digits
ExponentOf(lexeme) ==
    LET At(e) ==
            IF e = {} THEN 0
            ELSE LET With(sign, digits) ==
                         LET Of(d) == sign * NatOf(SubSeq(d, 1, Min({7, Len(d)})))
                         IN  Of(SubSeq(digits, LeadingZeros(digits) + 1, Len(digits)))
                 IN  IF CharAt(lexeme, Min(e) + 1) = "-"
                     THEN With(-1, Rest(lexeme, Min(e) + 2))
                     ELSE IF CharAt(lexeme, Min(e) + 1) = "+"
                     THEN With(1, Rest(lexeme, Min(e) + 2))
                     ELSE With(1, Rest(lexeme, Min(e) + 1))
    IN  At({j \in 1..Len(lexeme) : CharAt(lexeme, j) \in {"e", "E"}})

\* the digits before and after the point of the lexeme
MantissaOf(lexeme) ==
    LET Unsigned(a) ==
            LET EndingAt(b) ==
                    LET Parts(point) ==
                            IF point = {} THEN <<SubSeq(lexeme, a, b), "">>
                            ELSE <<SubSeq(lexeme, a, Min(point) - 1),
                                   SubSeq(lexeme, Min(point) + 1, b)>>
                    IN  Parts({j \in a..b : CharAt(lexeme, j) = "."})
            IN  EndingAt(Min({j - 1 : j \in {j \in 1..Len(lexeme) : CharAt(lexeme, j) \in {"e", "E"}}
                                          \cup {Len(lexeme) + 1}}))
    IN  Unsigned(IF CharAt(lexeme, 1) = "-" THEN 2 ELSE 1)

\* the number of the lexeme as sign, significant digits and the power of
\* ten with which it is 0.digits times 10^n
NumberOf(lexeme) ==
    LET With(m) ==
            [negative |-> CharAt(lexeme, 1) = "-",
             digits |-> SignificantDigits(m[1] \o m[2]),
             n |-> Len(m[1]) - LeadingZeros(m[1] \o m[2]) + ExponentOf(lexeme)]
    IN  With(MantissaOf(lexeme))

(***************************************************************************)
(* Natural numbers of any size, for the arithmetic of Number: a number is  *)
(* the sequence of its digits to the base 10000, the lowest first, without *)
(* zeros at the high end, so that << >> is 0.                              *)
(***************************************************************************)

BigTrim(a) ==
    IF a # <<>> /\ a[Len(a)] # 0 THEN a
    ELSE SubSeq(a, 1, Max({i \in 1..Len(a) : a[i] # 0} \cup {0}))

BigDigitAt(a, i) == IF 0 < i /\ i <= Len(a) THEN a[i] ELSE 0

\* 1 when a carry comes into position i of the sums s of digits, else 0:
\* it comes from the nearest lower position whose sum is not pass, when
\* that sum is above pass
CarryInto(s, i, pass) ==
    IF i = 1 THEN 0
    ELSE IF s[i - 1] # pass THEN (IF s[i - 1] > pass THEN 1 ELSE 0)
    ELSE IF \E j \in 1..(i - 1) : /\ s[j] > pass
                                  /\ \A l \in (j + 1)..(i - 1) : s[l] = pass
    THEN 1 ELSE 0

\* a + b
BigAdd(a, b) ==
    IF a = <<>> THEN b
    ELSE IF b = <<>> THEN a
    ELSE LET Carried(s) ==
                 BigTrim(<<>> \o [i \in 1..Len(s) |->
                                     (s[i] + CarryInto(s, i, 9999)) % 10000])
         IN  Carried(<<>> \o [i \in 1..(Max({Len(a), Len(b)}) + 1) |->
                                 BigDigitAt(a, i) + BigDigitAt(b, i)])

\* a - b, for b not above a: a borrow is a carry of the digits of b less
\* those of a, which passes a 0
BigSub(a, b) ==
    IF b = <<>> THEN a
    ELSE LET Borrowed(s) ==
                 BigTrim(<<>> \o [i \in 1..Len(s) |->
                                     (-s[i] - CarryInto(s, i, 0)) % 10000])
         IN  Borrowed(<<>> \o [i \in 1..Len(a) |-> BigDigitAt(b, i) - a[i]])

\* a times 10000^n
BigShift(a, n) == IF a = <<>> THEN <<>> ELSE [i \in 1..n |-> 0] \o a

\* a times the natural number k, k not above 10000: the low parts of the
\* products of the digits, and their high parts one position up
BigMulSmall(a, k) ==
    IF a = <<>> \/ k = 0 THEN <<>>
    ELSE IF k = 1 THEN a
    ELSE BigAdd(BigTrim(<<>> \o [i \in 1..Len(a) |-> (a[i] * k) % 10000]),
                BigTrim(<<0>> \o [i \in 1..Len(a) |-> (a[i] * k) \div 10000]))

\* -1, 0 or 1 as a is below, equal to or above b
BigCmp(a, b) ==
    IF Len(a) # Len(b) THEN (IF Len(a) < Len(b) THEN -1 ELSE 1)
    ELSE IF a = b THEN 0
    ELSE IF \E i \in 1..Len(a) : /\ a[i] < b[i]
                                 /\ \A j \in (i + 1)..Len(a) : a[j] = b[j]
    THEN -1 ELSE 1

RECURSIVE BigSum(_)
\* the sum of the numbers of the sequence
BigSum(terms) ==
    IF terms = <<>> THEN <<>>
    ELSE IF Len(terms) = 1 THEN terms[1]
    ELSE BigAdd(BigSum(SubSeq(terms, 1, Len(terms) \div 2)),
                BigSum(SubSeq(terms, Len(terms) \div 2 + 1, Len(terms))))

\* a times b
BigMul(a, b) ==
    IF a = <<>> \/ b = <<>> THEN <<>>
    ELSE BigSum(<<>> \o [j \in 1..Len(b) |-> BigShift(BigMulSmall(a, b[j]), j - 1)])

RECURSIVE BigTimesPower(_, _, _)
\* a times b^n, by the binary digits of n from the lowest: a takes the
\* factor b for a digit 1, and b is squared for the digits that remain
BigTimesPower(a, b, n) ==
    IF n = 0 \/ a = <<>> THEN a
    ELSE LET With(p) == BigTimesPower(p[1], p[2], n \div 2)
         IN  With(<<>> \o [i \in 1..2 |->
                              BigMul(<<a, b>>[i],
                                     <<IF n % 2 = 1 THEN b ELSE <<1>>,
                                       IF n > 1 THEN b ELSE <<>> >>[i])])

\* 2^p * 10^e as the ratio of two natural numbers, the first by the second
PowersOf(p, e) ==
    <<>> \o [i \in 1..2 |->
                BigShift(BigMulSmall(BigTimesPower(<<1>>, <<2>>, Max({(3 - 2 * i) * p, 0})),
                                     10^(Max({(3 - 2 * i) * e, 0}) % 4)),
                         Max({(3 - 2 * i) * e, 0}) \div 4)]

\* the number that the decimal digits stand for
BigOfDigits(digits) ==
    BigTrim(<<>> \o [i \in 1..((Len(digits) + 3) \div 4) |->
                        NatOf(SubSeq(digits, Max({1, Len(digits) - 4 * i + 1}),
                                     Len(digits) - 4 * (i - 1)))])

\* how many decimal digits a has, 0 for 0
BigLength(a) ==
    IF a = <<>> THEN 0
    ELSE 4 * (Len(a) - 1) + Cardinality({p \in {1, 10, 100, 1000} : a[Len(a)] >= p})

DecimalDigit(d) == SubSeq("0123456789", d + 1, d + 1)

RECURSIVE BigDigitsFrom(_, _)
\* the decimal digits of the digits 1 .. i of a, four of each
BigDigitsFrom(a, i) ==
    IF i = 0 THEN ""
    ELSE DecimalDigit(a[i] \div 1000) \o DecimalDigit((a[i] \div 100) % 10)
         \o DecimalDigit((a[i] \div 10) % 10) \o DecimalDigit(a[i] % 10)
         \o BigDigitsFrom(a, i - 1)

\* the decimal digits of a, "" for 0
BigDigits(a) ==
    IF a = <<>> THEN ""
    ELSE SubSeq(BigDigitsFrom(a, Len(a)), 4 * Len(a) - BigLength(a) + 1, 4 * Len(a))

\* a digit of a quotient: the largest d with d * b not above a, for a below
\* 10000 * b and b with a highest digit of 5000 or more.  The two highest
\* digits of a divided by the highest digit of b are d or up to 2 more
\* (Knuth, The Art of Computer Programming, 4.3.1, Theorem B).
BigQuotientDigit(a, b) ==
    LET Below(estimate) ==
            Max({d \in Max({0, estimate - 2})..estimate :
                    BigCmp(BigMulSmall(b, d), a) <= 0})
    IN  Below(Min({9999, (BigDigitAt(a, Len(b) + 1) * 10000 + BigDigitAt(a, Len(b)))
                             \div b[Len(b)]}))

RECURSIVE BigLongDivide(_, _, _, _)
\* the quotient of a by b, for a below 10000^(j + 1) * b, after the digits
\* q: its digits from that of 10000^j down, which are 0 once nothing
\* remains of a
BigLongDivide(a, b, j, q) ==
    IF j < 0 \/ a = <<>> THEN BigShift(BigTrim(q), j + 1)
    ELSE LET With(d) ==
                 BigLongDivide(BigSub(a, BigMulSmall(BigShift(b, j), d)), b, j - 1,
                               <<d>> \o q)
         IN  With(BigQuotientDigit(a, BigShift(b, j)))

\* the quotient q and the remainder r of a by b, b not 0: for the quotient
\* both are multiplied by the same number so that the highest digit of b is
\* 5000 or more
BigDivide(a, b) ==
    LET With(q) == [q |-> q, r |-> BigSub(a, BigMul(b, q))]
    IN  IF b = <<1>> THEN [q |-> a, r |-> <<>>]
        ELSE With(BigLongDivide(BigMulSmall(a, 10000 \div (b[Len(b)] + 1)),
                                BigMulSmall(b, 10000 \div (b[Len(b)] + 1)),
                                Len(a) - Len(b) + 1, <<>>))

\* s * 2^p * 10^e as the quotient q and the remainder r of a division by
\* den; unit is 2^p * 10^e times den
QuotientOf(s, p, e) ==
    LET Of(powers) ==
            [den |-> powers[2], unit |-> powers[1]]
            @@ BigDivide(BigMul(s, powers[1]), powers[2])
    IN  Of(PowersOf(p, e))

(***************************************************************************)
(* The Number of a decimal numeral and the toString of a Number            *)
(* (ECMAScript, The Number Type and Number::toString): a finite double is  *)
(* [m, q] for m * 2^q with m below 2^53 and q from -1074 on.  The          *)
(* operators take the function quotient, which is QuotientOf for the       *)
(* numbers that they divide.                                               *)
(***************************************************************************)

\* 2^52 and 2^53
TwoTo52 == BigOfDigits("4503599627370496")
TwoTo53 == BigOfDigits("9007199254740992")

\* the quotient and remainder d of a division as a significand with the
\* exponent q: the quotient rounded to the nearest integer, up when the
\* remainder is above half of the divisor, a tie to the even one, and a
\* significand of 2^53 carried into the exponent
RoundedToEven(d, q) ==
    LET Half(c) ==
            IF c > 0 \/ (c = 0 /\ BigDigitAt(d.q, 1) % 2 = 1)
            THEN (IF BigAdd(d.q, <<1>>) = TwoTo53 THEN [m |-> TwoTo52, q |-> q + 1]
                  ELSE [m |-> BigAdd(d.q, <<1>>), q |-> q])
            ELSE [m |-> d.q, q |-> q]
    IN  Half(BigCmp(BigMulSmall(d.r, 2), d.den))

\* the double nearest to the number x = 0.digits * 10^n, a tie to the
\* even significand: m is << >> for 0, and q is above 971 for Infinity.
\* A number from 10^311 on is beyond every double and one below 10^-325 is
\* nearer to 0 than to the least double.  The exponent is the least q from
\* -1074 on with x / 2^q below 2^53: it is as far above q0 as the quotient
\* x / 2^q0 has binary digits above 53, 2^(q0 + 54) being at most
\* 10^(n - 1) and 2^(q0 + 60) above 10^n.
DoubleOf(x, quotient) ==
    IF x.digits = "" \/ x.n < -324 THEN [m |-> <<>>, q |-> -1074]
    ELSE IF x.n > 310 THEN [m |-> TwoTo52, q |-> 972]
    ELSE LET From(q0) ==
                 LET At(q) ==
                         IF q > 971 THEN [m |-> TwoTo52, q |-> 972]
                         ELSE RoundedToEven(quotient[<<BigOfDigits(x.digits), -q,
                                                       x.n - Len(x.digits)>>], q)
                     Above(first) ==
                         At(q0 + Cardinality({j \in 0..8 :
                                BigCmp(first, BigMulSmall(TwoTo53, 2^j)) >= 0}))
                 IN  Above(quotient[<<BigOfDigits(x.digits), -q0, x.n - Len(x.digits)>>].q)
         IN  From(Max({-1074, ((x.n - 1) * 3321928) \div 1000000 - 54}))

IsZero(double) == double.m = <<>>
IsInfinite(double) == double.q > 971

\* of the integers of k digits nearest to the double, which are the
\* quotient d.q of the double by 10^(n - k) and the next, those whose
\* Number value is the double: of two the one nearest to it, and of two
\* as near the even one.  The Number value of a number is the double when
\* it is at most half the way to the next double, and not just half the way
\* for an odd significand; the next double below is half as far as the
\* next above for the significand 2^52 above the least exponent.  d.unit /
\* d.den is the way to the next double above, and d.r / d.den what the
\* double has above d.q.
NearestThatGive(d, double) ==
    IF d.r = <<>> THEN {d.q}
    ELSE LET even == BigDigitAt(double.m, 1) % 2 = 0
             Within(c) == IF even THEN c <= 0 ELSE c < 0
             Chosen(low, high, c) ==
                 IF low /\ (~high \/ c < 0 \/ (c = 0 /\ BigDigitAt(d.q, 1) % 2 = 0))
                 THEN {d.q}
                 ELSE IF high THEN {BigAdd(d.q, <<1>>)}
                 ELSE {}
         IN  Chosen(Within(BigCmp(BigMulSmall(d.r, IF double.m = TwoTo52 /\ double.q > -1074
                                                   THEN 4 ELSE 2),
                                  d.unit)),
                    Within(BigCmp(BigMulSmall(BigSub(d.den, d.r), 2), d.unit)),
                    BigCmp(BigMulSmall(d.r, 2), d.den))

\* Number::toString, step 5: the digits of the integer s and the power n
\* of ten, for k >= 1, 10^(k - 1) <= s < 10^k, such that the Number value
\* of s * 10^(n - k) is the double and k is as small as possible; of
\* several s the one nearest to the double, and of two as near the even
\* one.  The power n is that with the double from 10^(n - 1) and below
\* 10^n, sought around the digits of m and q * log 2; an integer that ends
\* in zeros is written with fewer digits and a higher power; 17 digits
\* give every double.
ShortestDigits(double, quotient) ==
    LET Of(n) ==
            LET Among(found) ==
                    LET At(k) ==
                            LET Written(s) ==
                                    [n |-> n - k + BigLength(s),
                                     digits |-> SignificantDigits(BigDigits(s))]
                            IN  Written(CHOOSE s \in found[k] : TRUE)
                    IN  At(CHOOSE k \in 1..17 : /\ found[k] # {}
                                                /\ k = 1 \/ found[k - 1] = {})
            IN  Among([k \in 1..17 |->
                          NearestThatGive(quotient[<<double.m, double.q, k - n>>], double)])
        Around(n0) ==
            Of(Min({n \in (n0 - 1)..(n0 + 2) :
                       quotient[<<double.m, double.q, -n>>].q = <<>>}))
    IN  Around(BigLength(double.m) + (double.q * 30103) \div 100000)

RECURSIVE Zeros(_)
Zeros(n) == IF n <= 0 THEN "" ELSE "0" \o Zeros(n - 1)

RECURSIVE DigitsOf(_)
\* the decimal digits of the natural number n
DigitsOf(n) ==
    IF n < 10 THEN SubSeq("0123456789", n + 1, n + 1)
    ELSE DigitsOf(n \div 10) \o SubSeq("0123456789", (n % 10) + 1, (n % 10) + 1)

\* Number.prototype.toString of a positive finite double whose shortest
\* digits are x.digits, with the power x.n of ten
DecimalString(x) ==
    LET k == Len(x.digits)
    IN  IF x.n <= 21 /\ k <= x.n THEN x.digits \o Zeros(x.n - k)
        ELSE IF 0 < x.n /\ x.n <= 21
        THEN SubSeq(x.digits, 1, x.n) \o "." \o SubSeq(x.digits, x.n + 1, k)
        ELSE IF -6 < x.n /\ x.n <= 0 THEN "0." \o Zeros(-x.n) \o x.digits
        ELSE SubSeq(x.digits, 1, 1)
             \o (IF k > 1 THEN "." \o SubSeq(x.digits, 2, k) ELSE "")
             \o "e" \o (IF x.n - 1 < 0 THEN "-" \o DigitsOf(1 - x.n)
                        ELSE "+" \o DigitsOf(x.n - 1))

\* Number.prototype.toString of the double of the number x
NumberToString(x) ==
    LET With(quotient) ==
            LET Of(double) ==
                    IF IsZero(double) THEN "0"
                    ELSE (IF x.negative THEN "-" ELSE "")
                         \o (IF IsInfinite(double) THEN "Infinity"
                             ELSE DecimalString(ShortestDigits(double, quotient)))
            IN  Of(DoubleOf(x, quotient))
    IN  With([job \in Seq(0..9999) \X Int \X Int |-> QuotientOf(job[1], job[2], job[3])])

\* the Number that JSON.parse makes of the lexeme, written as toString
\* writes it; the negative zero, which toString writes as 0, is -0
NumberValue(lexeme) ==
    LET Of(string) == IF string = "0" /\ CharAt(lexeme, 1) = "-" THEN "-0" ELSE string
    IN  Of(NumberToString(NumberOf(lexeme)))

(***************************************************************************)
(* JSON.parse, as the function from a text to its value or to a           *)
(* SyntaxError: the strings and the nesting of the text are found first,   *)
(* then each value is read between its first and its last character.       *)
(***************************************************************************)

\* the values of JavaScript that JSON.parse yields, and undefined
JsonNull == [t |-> "null"]
JsonBoolean(b) == [t |-> "boolean", v |-> b]
\* a Number is held as toString writes it, the negative zero as -0
JsonNumber(number) == [t |-> "number", v |-> number]
\* a numeral of the text, as written, before its Number is taken
JsonNumeral(lexeme) == [t |-> "numeral", v |-> lexeme]
JsonString(s) == [t |-> "string", v |-> s]
JsonArray(elements) == [t |-> "array", v |-> elements]
\* an object is the function from its own keys to their values
JsonObject(members) == [t |-> "object", v |-> members]

SyntaxError == [ok |-> FALSE]
ParsedValue(value) == [ok |-> TRUE, v |-> value]

JsonWhiteSpace == {" ", "\t", "\n", "\r"}
\* the characters that may not stand unescaped in a string: U+0001..U+001F,
\* and U+0000
JsonControl == {FromCharCode(n) : n \in 1..31}
NulCharacter == FromCharCode(0)
\* the escapes of one character
JsonEscapes == [c \in {"\"", "\\", "/", "b", "n", "t", "r", "f"} |->
                   CASE c = "n" -> "\n" [] c = "t" -> "\t" [] c = "r" -> "\r"
                     [] c = "f" -> "\f" [] c = "b" -> FromCharCode(8) [] OTHER -> c]
\* the value of the hexadecimal digit c, in either case; -1 for another
\* character
HexValue(c) ==
    LET At(k) == IF k = 0 \/ c = "" THEN -1 ELSE k - 1
    IN  At(IndexOfFrom(HexDigits, LowerChar(c), 1))
\* the four characters after \u are hexadecimal digits
IsUnicodeEscape(four) ==
    Len(four) = 4 /\ \A k \in 1..4 : HexValue(CharAt(four, k)) >= 0
\* the character that \uXXXX stands for
UnicodeEscape(four) ==
    FromCharCode(4096 * HexValue(CharAt(four, 1)) + 256 * HexValue(CharAt(four, 2))
                 + 16 * HexValue(CharAt(four, 3)) + HexValue(CharAt(four, 4)))
JsonOpening == {"{", "["}
JsonClosing == {"}", "]"}

\* -?(0|[1-9]\d*)(\.\d+)?([eE][+-]?\d+)?
JsonNumberRe ==
    Cat(Opt(Lit("-")),
        Cat(Alt(Lit("0"), Cat(Cls(Digits \ {"0"}), Star(Digit))),
            Cat(Opt(Cat(Lit("."), Plus(Digit))),
                Opt(Cat3(Cls({"e", "E"}), Opt(Cls({"+", "-"})), Plus(Digit))))))

\* the positions of the quotes of s that no backslash escapes: the quotes
\* that open and close the strings
UnescapedQuotes(s) ==
    {j \in 1..Len(s) :
        /\ CharAt(s, j) = "\""
        /\ \/ j = 1
           \/ CharAt(s, j - 1) # "\\"
           \/ (j - 1 - Max({k \in 0..(j - 1) : k = 0 \/ CharAt(s, k) # "\\"})) % 2 = 0}

\* the positions of the braces, brackets, commas and colons of s that stand
\* in no string
StructuralMarks(s, quotes) ==
    {j \in 1..Len(s) :
        /\ CharAt(s, j) \in JsonOpening \cup JsonClosing \cup {",", ":"}
        /\ Cardinality({q \in quotes : q < j}) % 2 = 0}

\* how many of the braces and brackets opened from position a on are open
\* after position p
Level(s, marks, a, p) ==
    LET Within(c) == Cardinality({m \in marks : a <= m /\ m <= p /\ CharAt(s, m) \in c})
    IN  Within(JsonOpening) - Within(JsonClosing)

\* the brace or bracket at a is closed at b and not before
Balanced(s, marks, a, b) ==
    /\ b \in marks
    /\ \A p \in marks : (a <= p /\ p <= b) => (Level(s, marks, a, p) = 0 <=> p = b)

\* the marks c that separate the members or elements of the value from a
\* to b, or a key from its value
Separators(s, marks, a, b, c) ==
    {p \in marks : a < p /\ p < b /\ CharAt(s, p) = c /\ Level(s, marks, a, p) = 1}

\* the numbers of S in ascending order
Ascending(S) ==
    <<>> \o [k \in 1..Cardinality(S) |->
                CHOOSE x \in S : Cardinality({y \in S : y < x}) = k - 1]

\* the spans <<from, to>> that the separators seps cut out of a + 1 .. b - 1
Pieces(seps, a, b) ==
    <<>> \o [k \in 1..(Len(seps) + 1) |->
        <<IF k = 1 THEN a + 1 ELSE seps[k - 1] + 1,
          IF k = Len(seps) + 1 THEN b - 1 ELSE seps[k] - 1>>]

\* the backslashes of raw that begin an escape: those after an even number
\* of backslashes
EscapeStarts(raw) ==
    {j \in 1..Len(raw) :
        /\ CharAt(raw, j) = "\\"
        /\ (j - 1 - Max({k \in 0..(j - 1) : k = 0 \/ CharAt(raw, k) # "\\"})) % 2 = 0}

\* how many characters the escape that begins at j takes, 0 when it is none
EscapeLength(raw, j) ==
    IF j < Len(raw) /\ CharAt(raw, j + 1) \in DOMAIN JsonEscapes THEN 2
    ELSE IF j + 5 <= Len(raw) /\ CharAt(raw, j + 1) = "u"
            /\ IsUnicodeEscape(SubSeq(raw, j + 2, j + 5))
    THEN 6
    ELSE 0

RECURSIVE Unescaped(_, _, _, _)
\* the characters that the characters a..b of raw stand for, by halves: an
\* escape stands at its backslash
Unescaped(raw, starts, a, b) ==
    IF a > b THEN ""
    ELSE IF a < b
    THEN Unescaped(raw, starts, a, (a + b) \div 2)
             \o Unescaped(raw, starts, (a + b) \div 2 + 1, b)
    ELSE IF a \in starts
    THEN IF EscapeLength(raw, a) = 2 THEN JsonEscapes[CharAt(raw, a + 1)]
         ELSE UnicodeEscape(SubSeq(raw, a + 2, a + 5))
    ELSE IF \E j \in starts : j < a /\ a < j + EscapeLength(raw, j) THEN ""
    ELSE CharAt(raw, a)

\* the characters that the text raw between two quotes stands for
Unescape(raw) ==
    LET With(starts) ==
            IF \/ \E j \in 1..Len(raw) : CharAt(raw, j) \in JsonControl
               \/ \E j \in starts : EscapeLength(raw, j) = 0
            THEN SyntaxError
            ELSE ParsedValue(Unescaped(raw, starts, 1, Len(raw)))
    IN  With(EscapeStarts(raw))

\* the string whose quotes stand at a and b
StringBetween(s, quotes, a, b) ==
    LET With(raw) ==
            IF Includes(raw, NulCharacter) THEN SyntaxError
            ELSE IF \E j \in 1..Len(raw) : CharAt(raw, j) \in JsonControl \cup {"\\"}
            THEN Unescape(raw)
            ELSE ParsedValue(raw)
    IN  IF /\ a < b
           /\ b \in quotes
           /\ Cardinality({q \in quotes : q < a}) % 2 = 0
           /\ {q \in quotes : a < q /\ q < b} = {}
        THEN With(SubSeq(s, a + 1, b - 1))
        ELSE SyntaxError

\* true, false, null or a numeral, from a to b
ScalarBetween(s, a, b) ==
    LET token == SubSeq(s, a, b)
    IN  CASE token = "true" -> ParsedValue(JsonBoolean(TRUE))
          [] token = "false" -> ParsedValue(JsonBoolean(FALSE))
          [] token = "null" -> ParsedValue(JsonNull)
          [] OTHER ->
               IF Ends(JsonNumberRe, s, a, FALSE) # <<>>
                  /\ Ends(JsonNumberRe, s, a, FALSE)[1] = b + 1
               THEN ParsedValue(JsonNumeral(token))
               ELSE SyntaxError

\* the object of the members ms, each [ok, key, v]: a key met again takes
\* the later value
ObjectOf(ms) ==
    IF \E k \in 1..Len(ms) : ~ms[k].ok THEN SyntaxError
    ELSE ParsedValue(JsonObject(
             [key \in {ms[k].key : k \in 1..Len(ms)} |->
                 ms[Max({k \in 1..Len(ms) : ms[k].key = key})].v]))

ArrayOf(es) ==
    IF \E k \in 1..Len(es) : ~es[k].ok THEN SyntaxError
    ELSE ParsedValue(JsonArray([k \in 1..Len(es) |-> es[k].v]))

RECURSIVE ParseSpan(_, _, _, _, _)

\* the member  key : value  that stands from from to to in the object that
\* opens at a
MemberBetween(s, quotes, marks, a, from, to) ==
    LET At(colons) ==
            IF colons = {} THEN SyntaxError
            ELSE LET Of(key, val) ==
                         IF key.ok /\ key.v.t = "string" /\ val.ok
                         THEN [ok |-> TRUE, key |-> key.v.v, v |-> val.v]
                         ELSE SyntaxError
                 IN  Of(ParseSpan(s, quotes, marks, from, Min(colons) - 1),
                        ParseSpan(s, quotes, marks, Min(colons) + 1, to))
    IN  At({p \in marks : from <= p /\ p <= to /\ CharAt(s, p) = ":"
                          /\ Level(s, marks, a, p) = 1})

\* the members or elements of the value from a to b, one for each piece
EachPiece(s, quotes, marks, a, pieces) ==
    <<>> \o [k \in 1..Len(pieces) |->
        IF CharAt(s, a) = "{"
        THEN MemberBetween(s, quotes, marks, a, pieces[k][1], pieces[k][2])
        ELSE ParseSpan(s, quotes, marks, pieces[k][1], pieces[k][2])]

\* the object or array that opens at a and closes at b
ContainerBetween(s, quotes, marks, a, b) ==
    LET Of(parts) == IF CharAt(s, a) = "{" THEN ObjectOf(parts) ELSE ArrayOf(parts)
    IN  IF ~Balanced(s, marks, a, b)
           \/ CharAt(s, b) # (IF CharAt(s, a) = "{" THEN "}" ELSE "]")
        THEN SyntaxError
        ELSE IF \A j \in (a + 1)..(b - 1) : CharAt(s, j) \in JsonWhiteSpace
        THEN Of(<<>>)
        ELSE Of(EachPiece(s, quotes, marks, a,
                          Pieces(Ascending(Separators(s, marks, a, b, ",")), a, b)))

\* the one value that stands from a0 to b0, white space around it
ParseSpan(s, quotes, marks, a0, b0) ==
    LET Between(a, b) ==
            IF CharAt(s, a) \in JsonOpening THEN ContainerBetween(s, quotes, marks, a, b)
            ELSE IF CharAt(s, a) = "\""
            THEN LET Text(str) == IF str.ok THEN ParsedValue(JsonString(str.v))
                                  ELSE SyntaxError
                 IN  Text(StringBetween(s, quotes, a, b))
            ELSE ScalarBetween(s, a, b)
        Inner(at) == IF at = {} THEN SyntaxError ELSE Between(Min(at), Max(at))
    IN  Inner({j \in a0..b0 : CharAt(s, j) \notin JsonWhiteSpace})

RECURSIVE WithNumbers(_)
\* the value with the Number of each of its numerals
WithNumbers(value) ==
    IF value.t = "numeral" THEN JsonNumber(NumberValue(value.v))
    ELSE IF value.t = "array"
    THEN JsonArray(<<>> \o [k \in 1..Len(value.v) |-> WithNumbers(value.v[k])])
    ELSE IF value.t = "object"
    THEN JsonObject([key \in DOMAIN value.v |-> WithNumbers(value.v[key])])
    ELSE value

\* JSON.parse(text): the value, or a SyntaxError thrown
JSONparse(text) ==
    LET With(quotes) ==
            LET Of(parsed) ==
                    IF parsed.ok THEN ParsedValue(WithNumbers(parsed.v)) ELSE SyntaxError
            IN  Of(ParseSpan(text, quotes, StructuralMarks(text, quotes), 1, Len(text)))
    IN  With(UnescapedQuotes(text))

(***************************************************************************)
(* GrokMenuParser.validateMenuStructure                                    *)
(***************************************************************************)

\* typeof x
TypeOf(x) == IF x.t \in {"object", "array", "null"} THEN "object" ELSE x.t

\* x && typeof x === 'object', for the values JSON.parse yields
IsObject(x) == x.t \in {"object", "array"}

\* x.name for a name that is no array index and not "length"
Prop(x, name) ==
    IF x.t = "object" /\ name \in DOMAIN x.v THEN x.v[name] ELSE Undefined

\* the values x[k] for k of Object.keys(x)
OwnValues(x) ==
    IF x.t = "object" THEN {x.v[k] : k \in DOMAIN x.v}
    ELSE IF x.t = "array" THEN {x.v[k] : k \in 1..Len(x.v)}
    ELSE {}

IsArray(x) == x.t = "array"

ValidCourse(course) ==
    /\ IsObject(course)
    /\ TypeOf(Prop(course, "id")) = "number"
    /\ TypeOf(Prop(course, "courseType")) = "string"
    /\ TypeOf(Prop(course, "foodItems")) = "string"

ValidMeal(meal) ==
    /\ IsObject(meal)
    /\ TypeOf(Prop(meal, "id")) = "number"
    /\ TypeOf(Prop(meal, "timeOfDay")) = "string"
    /\ TypeOf(Prop(meal, "startTime")) = "string"
    /\ TypeOf(Prop(meal, "endTime")) = "string"
    /\ IsArray(Prop(meal, "courses"))
    /\ \A course \in OwnValues(Prop(meal, "courses")) : ValidCourse(course)

ValidDay(day) ==
    /\ IsObject(day)
    /\ TypeOf(Prop(day, "id")) = "number"
    /\ TypeOf(Prop(day, "dayName")) = "string"
    /\ IsArray(Prop(day, "meals"))
    /\ \A meal \in OwnValues(Prop(day, "meals")) : ValidMeal(meal)

validateMenuStructure(menu) ==
    /\ TypeOf(menu) = "object" /\ menu # JsonNull
    /\ OwnValues(menu) # {}
    /\ \A day \in OwnValues(menu) : ValidDay(day)

(***************************************************************************)
(* GrokMenuParser.parseMenu: the request, the content of the response, the *)
(* extraction of the payload and JSON.parse with its one retry             *)
(***************************************************************************)

\* the WhiteSpace characters that have no place in the alphabet: U+1680,
\* U+2001, U+2002, U+2004..U+200A, U+202F, U+205F, U+3000 and U+FEFF
WideSpaces ==
    {FromCharCode(n) : n \in {5760, 8193, 8194, 8239, 8287, 12288, 65279} \cup 8196..8202}
\* \s on the content: a WhiteSpace character of the alphabet, or one beyond
WideSpace ==
    Alt(Cls(WhiteSpace),
        Cat(Lit(Beyond),
            Alt(Cat(Lit("200"), Cls({"1", "2", "4", "5", "6", "7", "8", "9", "a"})),
                Alt(Lit("1680"),
                    Alt(Lit("202f"), Alt(Lit("205f"), Alt(Lit("3000"), Lit("feff"))))))))
\* String.prototype.trim on the content
TrimWide(s) ==
    IF ~Includes(s, Beyond) THEN Trim(s)
    ELSE LET Between(keep) == IF keep = {} THEN "" ELSE SubSeq(s, Min(keep), Max(keep))
         IN  Between({j \in 1..Len(s) :
                         /\ CharAt(s, j) \notin WhiteSpace
                         /\ \A i \in Max({1, j - 4})..Min({j, Len(s) - 4}) :
                                SubSeq(s, i, i + 4) \notin WideSpaces})
\* String.prototype.substring(0, n) on the content
FirstUnits(text, n) ==
    LET With(beyond) ==
            IF beyond = {} THEN SubSeq(text, 1, Min({n, Len(text)}))
            ELSE SubSeq(text, 1,
                        Max({e \in 0..Len(text) :
                                /\ e - 4 * Cardinality({i \in beyond : i < e}) <= n
                                /\ \A i \in beyond : ~(i <= e /\ e < i + 4)}))
    IN  With({i \in 1..Len(text) : CharAt(text, i) = Beyond})

\* [\s\S]
AnyChar == NotCls({})
\* ```
Fence == Backtick \o Backtick \o Backtick
\* /```(?:json)?\s*([\s\S]*?)\s*```/ as opening, group 1 and closing
CodeBlockOpen == Cat3(Lit(Fence), Opt(Lit("json")), Star(WideSpace))
CodeBlockBody == LazyStar(AnyChar)
CodeBlockClose == Cat(Star(WideSpace), Lit(Fence))
\* /\{[\s\S]*\}/
JsonObjectPattern == Cat3(Lit("{"), Star(AnyChar), Lit("}"))
\* /^[^{]*/ and /[^}]*$/
BeforeFirstBrace == Cat(Bol, Star(NotCls({"{"})))
AfterLastBrace == Cat(Star(NotCls({"}"})), Eol)

RECURSIVE MatchInner(_, _, _, _, _, _)
\* String.prototype.match of /re1(re2)re3/ from position i: << >> or
\* <<group 1>> of the leftmost, most preferred match
MatchInner(s, re1, re2, re3, ci, i) ==
    IF i > Len(s) + 1 THEN <<>>
    ELSE LET First(ms) ==
                 IF Len(ms) > 0 THEN <<SubSeq(s, ms[1][1], ms[1][2] - 1)>>
                 ELSE MatchInner(s, re1, re2, re3, ci, i + 1)
         IN  First(GroupEnds1(s, Ends(re1, s, i, ci), 1, re2, re3, ci))

\* the text of the match m = <<start, end>> of s
Matched(s, m) == SubSeq(s, m[1], m[2] - 1)

\* Strategy 3: content without what stands before the first { and after
\* the last }
CleanedUp(text) ==
    TrimWide(ReplaceFirst(ReplaceFirst(text, BeforeFirstBrace, "", FALSE),
                          AfterLastBrace, "", FALSE))

\* Strategy 2, then Strategy 3
ObjectPatternOrCleanedUp(text) ==
    LET With(jsonObjectMatch) ==
            IF jsonObjectMatch # <<>> THEN Matched(text, jsonObjectMatch)
            ELSE CleanedUp(text)
    IN  With(SearchFrom(JsonObjectPattern, text, 1, FALSE))

\* the jsonString the three strategies take from the content
ExtractJson(text) ==
    LET With(codeBlockMatch) ==
            IF codeBlockMatch # <<>> /\ codeBlockMatch[1] # ""
            THEN TrimWide(codeBlockMatch[1])
            ELSE ObjectPatternOrCleanedUp(text)
    IN  With(IF Includes(text, Fence)
             THEN MatchInner(text, CodeBlockOpen, CodeBlockBody, CodeBlockClose, FALSE, 1)
             ELSE <<>>)

NoKeyMessage == "XAI_API_KEY environment variable is not set"
FetchFailedMessage == "fetch failed"
RequestFailedMessage(status, statusText, errorText) ==
    "Grok API request failed: " \o status \o " " \o statusText \o "\n" \o errorText
TruncatedMessage ==
    "Response was truncated due to max_tokens limit. Try with shorter text or increase max_tokens."
NoContentMessage(finishReason) ==
    "No content received from Grok API. Finish reason: " \o finishReason
RawResponseLength == 500
ParseFailedMessage(text) ==
    "Failed to parse JSON response from Grok API. Raw response: "
        \o FirstUnits(text, RawResponseLength) \o "..."
\* the errors of the engine, by their names: the SyntaxError of JSON.parse
\* and the TypeError of a property read on null or of a call of what is no
\* function
SyntaxErrorName == "SyntaxError"
TypeErrorName == "TypeError"

Thrown(message) == [thrown |-> message]
ReturnedValue(value) == [returned |-> value]

\* a promise has resolved to a value, or rejected with an error
Resolved(value) == [resolved |-> value]
RejectedWith(message) == [rejected |-> message]
IsResolved(settlement) == "resolved" \in DOMAIN settlement

\* x is undefined or null: x?.name is undefined
Nullish(x) == x.t \in {"undefined", "null"}

\* x?.[0]
OptionalFirst(x) ==
    IF x.t = "array" THEN IF Len(x.v) > 0 THEN x.v[1] ELSE Undefined
    ELSE IF x.t = "string"
    THEN IF x.v # "" THEN JsonString(FirstUnits(x.v, 1)) ELSE Undefined
    ELSE Prop(x, "0")

\* the value is not one of undefined, null, false, "", 0
Truthy(x) ==
    CASE x.t \in {"undefined", "null"} -> FALSE
      [] x.t = "boolean" -> x.v
      [] x.t = "string" -> x.v # ""
      [] x.t = "number" -> x.v \notin {"0", "-0"}
      [] OTHER -> TRUE

RECURSIVE ToStringOf(_)
\* ToString of the value, as a template literal applies it: the string, or
\* the TypeError thrown.  An object of JSON.parse with an own property
\* toString, which is no function, has no primitive value (its valueOf, own
\* or inherited, gives none either); an array joins the strings of its
\* elements, the empty string for null and undefined.
ToStringOf(x) ==
    CASE x.t = "string" -> ReturnedValue(x.v)
      [] x.t = "number" -> ReturnedValue(IF x.v = "-0" THEN "0" ELSE x.v)
      [] x.t = "boolean" -> ReturnedValue(IF x.v THEN "true" ELSE "false")
      [] x.t = "array" ->
           LET Of(elements) ==
                   IF \E k \in 1..Len(elements) : "thrown" \in DOMAIN elements[k]
                   THEN Thrown(TypeErrorName)
                   ELSE ReturnedValue(Join([k \in 1..Len(elements) |-> elements[k].returned],
                                           ","))
           IN  Of(<<>> \o [k \in 1..Len(x.v) |->
                              IF Nullish(x.v[k]) THEN ReturnedValue("")
                              ELSE ToStringOf(x.v[k])])
      [] x.t = "object" ->
           IF "toString" \in DOMAIN x.v THEN Thrown(TypeErrorName)
           ELSE ReturnedValue("[object Object]")
      [] OTHER -> ReturnedValue(x.t)

\* lines 61-77 on the result of response.json(): the content, or the
\* error that is thrown
ContentOf(result) ==
    IF Nullish(result) THEN Thrown(TypeErrorName)
    ELSE LET With(choice) ==
                 LET Of(finishReason, text) ==
                         IF finishReason.t = "string" /\ finishReason.v = "length"
                         THEN Thrown(TruncatedMessage)
                         ELSE IF ~Truthy(text)
                         THEN LET Message(reason) ==
                                      IF "thrown" \in DOMAIN reason THEN reason
                                      ELSE Thrown(NoContentMessage(reason.returned))
                              IN  Message(ToStringOf(finishReason))
                         ELSE [content |-> text]
                 IN  IF Nullish(choice) THEN Of(Undefined, Undefined)
                     ELSE IF Nullish(Prop(choice, "message"))
                     THEN Of(Prop(choice, "finish_reason"), Undefined)
                     ELSE Of(Prop(choice, "finish_reason"),
                             Prop(Prop(choice, "message"), "content"))
         IN  With(IF Nullish(Prop(result, "choices")) THEN Undefined
                  ELSE OptionalFirst(Prop(result, "choices")))

\* the call ends with the outcome o
GrokEnds(o) ==
    /\ grokPc' = IF "thrown" \in DOMAIN o THEN "thrown" ELSE "returned"
    /\ outcome' = o

\* the try block of JSON.parse without the retry of the catch block
ParseJsonOnce ==
    /\ grokPc = "parse"
    /\ LET With(first) ==
               /\ attempts' = 1
               /\ GrokEnds(IF first.ok THEN ReturnedValue(first.v)
                           ELSE Thrown(ParseFailedMessage(content)))
       IN  With(JSONparse(jsonString))
    /\ UNCHANGED <<content, jsonString, xaiApiKey, authorization, response,
                   menuVars, itemVars, laterVars>>

\* the values of process.env.XAI_API_KEY: unset, empty, set
ApiKeys == {Undefined, JsonString(""), JsonString("xai-key")}

\* other code of the process sets or unsets process.env.XAI_API_KEY
EnvChanges(key) ==
    /\ key # xaiApiKey
    /\ xaiApiKey' = key
    /\ UNCHANGED <<grokPc, content, jsonString, attempts, outcome, authorization,
                   response, menuVars, itemVars, laterVars>>

\* parseMenu is called: the API key is checked, and the call waits for
\* getParsingInstructions
GrokParseMenu ==
    /\ grokPc = "idle"
    /\ IF Truthy(xaiApiKey)
       THEN grokPc' = "instructions" /\ outcome' = outcome
       ELSE GrokEnds(Thrown(NoKeyMessage))
    /\ UNCHANGED <<content, jsonString, attempts, xaiApiKey, authorization, response,
                   menuVars, itemVars, laterVars>>

\* getParsingInstructions has resolved: the request is sent with the API
\* key of this moment
FetchCalled ==
    /\ grokPc = "instructions"
    /\ grokPc' = "fetch"
    /\ authorization' = "Bearer " \o ToStringOf(xaiApiKey).returned
    /\ UNCHANGED <<content, jsonString, attempts, outcome, xaiApiKey, response,
                   menuVars, itemVars, laterVars>>

\* fetch rejects
FetchFails ==
    /\ grokPc = "fetch"
    /\ GrokEnds(Thrown(FetchFailedMessage))
    /\ authorization' = NULL
    /\ UNCHANGED <<content, jsonString, attempts, xaiApiKey, response,
                   menuVars, itemVars, laterVars>>

\* fetch resolves: response.ok is checked, and the call waits for the
\* text of the response or for its JSON
FetchResolves(r) ==
    /\ grokPc = "fetch"
    /\ grokPc' = IF r.ok THEN "json" ELSE "text"
    /\ response' = r
    /\ authorization' = NULL
    /\ UNCHANGED <<content, jsonString, attempts, outcome, xaiApiKey,
                   menuVars, itemVars, laterVars>>

\* response.text() settles: the call throws the error of the request, or
\* what text() rejected with
TextSettles ==
    /\ grokPc = "text"
    /\ GrokEnds(IF IsResolved(response.text)
                THEN Thrown(RequestFailedMessage(response.status, response.statusText,
                                                 response.text.resolved))
                ELSE Thrown(response.text.rejected))
    /\ response' = NULL
    /\ UNCHANGED <<content, jsonString, attempts, xaiApiKey, authorization,
                   menuVars, itemVars, laterVars>>

\* response.json() settles: the finish reason and the content of the first
\* choice are checked; a content that is no string has no match
JsonSettles ==
    /\ grokPc = "json"
    /\ LET With(c) ==
               IF "thrown" \in DOMAIN c
               THEN GrokEnds(c) /\ content' = content
               ELSE IF c.content.t # "string"
               THEN GrokEnds(Thrown(TypeErrorName)) /\ content' = content
               ELSE grokPc' = "extract" /\ content' = c.content.v /\ outcome' = outcome
       IN  With(IF IsResolved(response.json) THEN ContentOf(response.json.resolved)
                ELSE Thrown(response.json.rejected))
    /\ response' = NULL
    /\ UNCHANGED <<jsonString, attempts, xaiApiKey, authorization,
                   menuVars, itemVars, laterVars>>

\* the three extraction strategies
Extract ==
    /\ grokPc = "extract"
    /\ grokPc' = "parse"
    /\ jsonString' = ExtractJson(content)
    /\ UNCHANGED <<content, attempts, outcome, xaiApiKey, authorization, response,
                   menuVars, itemVars, laterVars>>

\* JSON.parse of jsonString; when it throws, one more JSON.parse of what
\* the aggressive extraction /(\{[\s\S]*\})/ finds in the content.  A
\* validateMenuStructure that fails is logged only.
ParseJson ==
    /\ grokPc = "parse"
    /\ LET Retry(aggressiveMatch) ==
               IF aggressiveMatch = <<>>
               THEN attempts' = 1 /\ GrokEnds(Thrown(ParseFailedMessage(content)))
               ELSE LET With(second) ==
                            /\ attempts' = 2
                            /\ GrokEnds(IF second.ok THEN ReturnedValue(second.v)
                                        ELSE Thrown(ParseFailedMessage(content)))
                    IN  With(JSONparse(Matched(content, aggressiveMatch)))
           With(first) ==
               IF first.ok
               THEN attempts' = 1 /\ GrokEnds(ReturnedValue(first.v))
               ELSE Retry(SearchFrom(JsonObjectPattern, content, 1, FALSE))
       IN  With(JSONparse(jsonString))
    /\ UNCHANGED <<content, jsonString, xaiApiKey, authorization, response,
                   menuVars, itemVars, laterVars>>

\* the caller has taken the menu or the error
GrokRelease ==
    /\ grokPc \in {"returned", "thrown"}
    /\ grokPc' = "idle"
    /\ content' = ""
    /\ jsonString' = ""
    /\ attempts' = 0
    /\ outcome' = NULL
    /\ UNCHANGED <<xaiApiKey, authorization, response, menuVars, itemVars, laterVars>>

(***************************************************************************)
(* GrokSpec: calls of GrokMenuParser.parseMenu, one after the other, on    *)
(* the responses of the API                                                *)
(***************************************************************************)

MaxDays == 1

CourseJson == "{\"id\":0,\"courseType\":\"Entrée\",\"foodItems\":\"Pasta, Chicken\"}"
MealJson(courses) ==
    "{\"id\":0,\"timeOfDay\":\"lunch\",\"startTime\":\"11:20am\",\"endTime\":\"1pm\",\"courses\":["
        \o courses \o "]}"
DayJson(meals) == "{\"id\":0,\"dayName\":\"Monday\",\"meals\":[" \o meals \o "]}"

\* days as the API may answer them: well-formed ones, and ones with a
\* property missing or of another type
DayTexts ==
    { DayJson(MealJson(CourseJson)),
      DayJson(""),
      "{\"id\":0,\"meals\":[]}",
      "{\"id\":\"0\",\"dayName\":\"Monday\",\"meals\":[]}",
      "{\"id\":0,\"dayName\":\"Monday\",\"meals\":{}}",
      DayJson("{\"id\":0,\"timeOfDay\":\"lunch\",\"startTime\":\"11:20am\",\"courses\":[]}"),
      DayJson(MealJson("{\"id\":0,\"courseType\":\"Entrée\",\"foodItems\":[\"Pasta\"]}")),
      DayJson(MealJson("null")),
      "null" }

DayKeys == <<"0", "1", "2">>
\* { "0": day, "1": day, ... }
MenuJson(days) ==
    "{" \o Join([k \in 1..Len(days) |-> "\n  \"" \o DayKeys[k] \o "\": " \o days[k]], ",")
        \o "\n}"

RECURSIVE Repeat(_, _)
Repeat(s, n) == IF n = 0 THEN "" ELSE s \o Repeat(s, n - 1)

\* a refusal longer than RawResponseLength characters
LongRefusal == Repeat("The scan is too blurry to read. ", 17)

Payloads ==
    {MenuJson(days) : days \in SeqsUpTo(DayTexts, MaxDays)}
        \cup { "[" \o DayJson("") \o "]",
               "123",
               "{\"0\":{\"id\":0,\"dayName\":\"Mon",
               "{oops}",
               "{\"0\":{\"id\":0,\"dayName\":\"Tues\\u0064ay\",\"meals\":[]}}",
               "{\"0\":{\"id\":0,\"dayName\":\"Mon" \o VT \o "day\",\"meals\":[]}}",
               "" }

Wrappings(payload) ==
    { payload,
      "Here is the menu:\n\n" \o payload,
      Fence \o "json\n" \o payload \o "\n" \o Fence,
      Fence \o "\n" \o payload \o "\n" \o Fence \o "\nHope this helps!",
      payload \o "\n\nNote: {braces} mark guesses.",
      Fence \o "text\nMenu for the week\n" \o Fence \o "\n" \o payload }

Contents == UNION {Wrappings(payload) : payload \in Payloads} \cup {LongRefusal}

\* { choices: [{ finish_reason, message: { content } }] }
ResultOf(finishReason, text) ==
    JsonObject([name \in {"choices"} |->
        JsonArray(<<JsonObject(
            [key \in {"finish_reason", "message"} |->
                IF key = "finish_reason" THEN finishReason
                ELSE JsonObject([k \in {"content"} |-> text])])>>)])

\* a response with ok true whose json() settles as given
OkResponse(json) ==
    [ok |-> TRUE, status |-> "200", statusText |-> "OK",
     text |-> RejectedWith("unread"), json |-> json]
\* a response with ok false whose text() settles as given
ErrorResponse(status, statusText, text) ==
    [ok |-> FALSE, status |-> status, statusText |-> statusText,
     text |-> text, json |-> RejectedWith("unread")]

\* response.json() of a body: JSON.parse of its text
BodyJson(body) ==
    LET With(parsed) ==
            IF parsed.ok THEN Resolved(parsed.v) ELSE RejectedWith(SyntaxErrorName)
    IN  With(JSONparse(body))

\* bodies that are no answer of a chat completion
OtherBodies ==
    { "<html>Bad Gateway</html>",
      "null",
      "{}",
      "{\"choices\":[]}",
      "{\"choices\":[null]}",
      "{\"choices\":[{\"finish_reason\":\"stop\",\"message\":{\"content\":5}}]}",
      "{\"choices\":[{\"finish_reason\":\"stop\",\"message\":{\"content\":0.0}}]}",
      "{\"choices\":[{\"finish_reason\":\"stop\",\"message\":{\"content\":[\"{}\"]}}]}",
      "{\"choices\":[{\"finish_reason\":null,\"message\":{\"content\":null}}]}",
      "{\"choices\":[{\"finish_reason\":\"content_filter\",\"message\":{}}]}",
      "{\"choices\":[{\"finish_reason\":{\"toString\":null},\"message\":{}}]}",
      "{\"choices\":[{\"finish_reason\":[1e21,{}],\"message\":{\"content\":\"\"}}]}",
      "{\"choices\":[{\"finish_reason\":\"stop\",\"message\":{\"content\":"
          \o "\"{\\\"\\\\u4e00\\\":null,\\\"\\\\u4e01\\\":{\\\"id\\\":1.0}}\"}}]}",
      "{\"choices\":[{\"finish_reason\":\"length\",\"message\":{\"content\":\"{\\\"0\\\":\"}}]}",
      "{\"choices\":\"stop\"}" }

Responses ==
    {OkResponse(Resolved(ResultOf(JsonString("stop"), JsonString(text)))) : text \in Contents}
        \cup {OkResponse(BodyJson(body)) : body \in OtherBodies}
        \cup { OkResponse(Resolved(ResultOf(JsonString("length"),
                                            JsonString("{\"0\":{\"id\":0,\"dayName\":\"Mon")))),
               OkResponse(Resolved(ResultOf(JsonString("stop"), JsonString("")))),
               OkResponse(RejectedWith("terminated")),
               ErrorResponse("401", "Unauthorized",
                             Resolved("{\"error\":\"Invalid API key\"}")),
               ErrorResponse("500", "Internal Server Error", Resolved("")),
               ErrorResponse("502", "Bad Gateway", RejectedWith("terminated")) }

GrokNext ==
    \/ \E key \in ApiKeys : EnvChanges(key)
    \/ GrokParseMenu
    \/ FetchCalled
    \/ FetchFails
    \/ \E r \in Responses : FetchResolves(r)
    \/ TextSettles
    \/ JsonSettles
    \/ Extract
    \/ ParseJson
    \/ GrokRelease

GrokSpec == Init /\ [][GrokNext]_vars

(***************************************************************************)
(* Vocabulary of the properties                                            *)
(***************************************************************************)

Returned == pc = "returned"

\* the lines of the block with index k (0-based, as the forEach index)
BlockLines(k) == Split(dayBlocks[k + 1], "\n")
HeaderOf(k) == BlockLines(k)[1]
BodyOf(k) == Tail(BlockLines(k))

BlockIndexes == 0..(Len(dayBlocks) - 1)

\* the non-blank lines of the text, trimmed, in source order
TextLines(text) == FilterNonEmpty(MapTrim(Split(cleanText(text), "\n")))

RECURSIVE Flatten(_)
Flatten(seqs) == IF Len(seqs) = 0 THEN <<>> ELSE Head(seqs) \o Flatten(Tail(seqs))

\* the position of the first line of ls at or after from that matches a
\* notice pattern, Len(ls) + 1 when there is none
FirstNotice(ls, from) ==
    Min({i \in from..Len(ls) : isNoticeLine(ls[i])} \cup {Len(ls) + 1})

\* the position of the first course-type header line of ls, Len(ls) + 1 when
\* there is none
FirstCourseHeader(ls) ==
    Min({i \in 1..Len(ls) : isCourseType(ls[i])} \cup {Len(ls) + 1})

IsItemLine(l) == ~isCourseType(l) /\ cleanFoodItem(l) # ""

\* the sanitized items of the lines ls that are no course-type headers and
\* are not empty after sanitization, in source order
SurvivingItems(ls) ==
    LET kept == SelectSeq(ls, IsItemLine)
    IN  [i \in 1..Len(kept) |-> cleanFoodItem(kept[i])]

\* the foodItems of the courses cs, in order
FoodItemsOf(cs) == [i \in 1..Len(cs) |-> cs[i].foodItems]

TimesOfDay == {"breakfast", "brunch", "lunch", "dinner"}

IsCourse(c) ==
    /\ DOMAIN c = {"id", "courseType", "foodItems"}
    /\ c.id \in Nat
    /\ c.courseType \in STRING
    /\ c.foodItems \in STRING

IsMenuDay(d) ==
    /\ DOMAIN d = {"id", "timeOfDay", "startTime", "endTime", "courses"}
    /\ d.id \in Nat
    /\ d.timeOfDay \in TimesOfDay
    /\ d.startTime \in STRING
    /\ d.endTime \in STRING
    /\ \A i \in 1..Len(d.courses) : IsCourse(d.courses[i])

IsParsedMenu(m) ==
    /\ DOMAIN m \subseteq BlockIndexes
    /\ \A k \in DOMAIN m : IsMenuDay(m[k])

(***************************************************************************)
(* C1: parseMenu is total.  Every call, whatever the text, runs to its     *)
(* return, and what it returns is a menu object: day indexes mapped to     *)
(* day entries, possibly none.                                             *)
(***************************************************************************)
C1_ParseMenuTotal ==
    [](pc = "forEach" => <>(Returned /\ IsParsedMenu(parsedMenu)))

\* a text with blocks, every one with an unparseable header: the empty menu
C1_Witness ==
    Returned /\ Len(dayBlocks) >= 2 /\ parsedMenu = EmptyMenu

(***************************************************************************)
(* C2: a block made of a weekday line, then a meal header line with a time *)
(* range, then course lines yields a day entry whose times come from the   *)
(* meal header line; Scenario A yields one day at index 0 (lunch, 11:20am, *)
(* 1pm) with the one course Entrée: "Pasta, Chicken".                      *)
(***************************************************************************)
C2_WeekdayThenMealHeader ==
    Returned =>
        /\ \A k \in BlockIndexes :
            LET ls == BlockLines(k)
            IN  (/\ Len(ls) >= 2
                 /\ isDayHeader(ls[1])
                 /\ extractTimeInfo(ls[1]) = NULL
                 /\ extractTimeInfo(ls[2]) # NULL)
                => /\ k \in DOMAIN parsedMenu
                   /\ parsedMenu[k].timeOfDay = extractTimeInfo(ls[2]).timeOfDay
                   /\ parsedMenu[k].startTime = extractTimeInfo(ls[2]).startTime
                   /\ parsedMenu[k].endTime = extractTimeInfo(ls[2]).endTime
        /\ ocrText = ScenarioA =>
            /\ DOMAIN parsedMenu = {0}
            /\ parsedMenu[0].timeOfDay = "lunch"
            /\ parsedMenu[0].startTime = "11:20am"
            /\ parsedMenu[0].endTime = "1pm"
            /\ parsedMenu[0].courses =
                   <<[id |-> 0, courseType |-> "Entrée", foodItems |-> "Pasta, Chicken"]>>

(***************************************************************************)
(* C3: every day entry of the result has the interchange shape: an id      *)
(* equal to its key, a dayName that is the weekday of the block's first    *)
(* line, and a meals list of sessions with id, timeOfDay, startTime,       *)
(* endTime and courses.                                                    *)
(***************************************************************************)
C3_InterchangeShape ==
    Returned =>
        \A k \in DOMAIN parsedMenu :
            /\ {"id", "dayName", "meals"} \subseteq DOMAIN parsedMenu[k]
            /\ parsedMenu[k].id = k
            /\ Includes(ToLower(HeaderOf(k)), ToLower(parsedMenu[k].dayName))
            /\ \A i \in 1..Len(parsedMenu[k].meals) :
                   {"id", "timeOfDay", "startTime", "endTime", "courses"}
                       \subseteq DOMAIN parsedMenu[k].meals[i]

(***************************************************************************)
(* C4 as claimed: once any line of a block matches a notice pattern, no    *)
(* later line of the block contributes: the courses are those of the lines *)
(* strictly before the first notice line of the block.                     *)
(***************************************************************************)
C4_NothingAfterAnyNoticeLine ==
    Returned =>
        \A k \in DOMAIN parsedMenu :
            LET ls == BlockLines(k)
                n == FirstNotice(ls, 1)
            IN  /\ parsedMenu[k].courses = parseCourses(SubSeq(ls, 2, n - 1))
                /\ Join(FoodItemsOf(parsedMenu[k].courses), ", ")
                       = Join(SurvivingItems(SubSeq(ls, 2, n - 1)), ", ")

(***************************************************************************)
(* C4 amended: once a line after the first line of a block matches a       *)
(* notice pattern, no later line of the block contributes: the courses are *)
(* those of the lines between the first line and that notice line, and     *)
(* their items are exactly the surviving items of these lines, in order.   *)
(* The first line (the header) is not tested against the notice patterns.  *)
(***************************************************************************)
C4_NothingAfterNoticeLine ==
    Returned =>
        \A k \in DOMAIN parsedMenu :
            LET ls == BlockLines(k)
                n == FirstNotice(ls, 2)
            IN  /\ parsedMenu[k].courses = parseCourses(SubSeq(ls, 2, n - 1))
                /\ Join(FoodItemsOf(parsedMenu[k].courses), ", ")
                       = Join(SurvivingItems(SubSeq(ls, 2, n - 1)), ", ")

\* Scenario C: two items under Entrée, the notice line, then more lines
C4_Witness ==
    /\ Returned
    /\ ocrText = ScenarioC
    /\ FirstNotice(BlockLines(0), 2) = 5
    /\ Len(BlockLines(0)) = 7
    /\ parsedMenu[0].courses =
           <<[id |-> 0, courseType |-> "Entrée", foodItems |-> "Pasta, Chicken"]>>

(***************************************************************************)
(* C5: day indexes follow the order of the blocks in the text, not the     *)
(* calendar: the blocks are the lines of the text in source order, the     *)
(* entry with index k is the one made from the block with index k, and a   *)
(* text whose first block is a parseable "Wednesday" block has that block  *)
(* at index 0.                                                             *)
(***************************************************************************)
C5_IndexFollowsTextOrder ==
    Returned =>
        LET ls == TextLines(ocrText)
        IN  /\ Flatten([k \in 1..Len(dayBlocks) |-> Split(dayBlocks[k], "\n")]) = ls
            /\ \A k \in DOMAIN parsedMenu :
                /\ parsedMenu[k].id = k
                /\ extractTimeInfo(HeaderOf(k)) # NULL
                /\ parsedMenu[k].timeOfDay = extractTimeInfo(HeaderOf(k)).timeOfDay
                /\ parsedMenu[k].startTime = extractTimeInfo(HeaderOf(k)).startTime
                /\ parsedMenu[k].endTime = extractTimeInfo(HeaderOf(k)).endTime
                /\ parsedMenu[k].courses = parseCourses(BodyOf(k))
            /\ (/\ Len(ls) > 0
                /\ Includes(ToLower(ls[1]), "wednesday")
                /\ extractTimeInfo(ls[1]) # NULL)
               => (0 \in DOMAIN parsedMenu /\ HeaderOf(0) = ls[1])

\* Wednesday before Monday in the text: Wednesday is day 0, Monday day 1
C5_Witness ==
    /\ Returned
    /\ Len(dayBlocks) >= 2
    /\ Includes(ToLower(HeaderOf(0)), "wednesday")
    /\ Includes(ToLower(HeaderOf(1)), "monday")
    /\ {0, 1} \subseteq DOMAIN parsedMenu
    /\ parsedMenu[0].timeOfDay = "lunch"
    /\ parsedMenu[1].timeOfDay = "breakfast"

(***************************************************************************)
(* C6: a block whose header has neither a time range nor a single time     *)
(* token is left out of the result, and every other block has the entry it *)
(* has in the parse of the same text with the bad headers made parseable.  *)
(***************************************************************************)
RECURSIVE AllMatches(_, _, _, _)
\* the matches of re in s from position i on, left to right, as the matched
\* strings
AllMatches(re, s, i, ci) ==
    LET m == SearchFrom(re, s, i, ci)
    IN  IF m = <<>> THEN <<>>
        ELSE <<SubSeq(s, m[1], m[2] - 1)>>
             \o AllMatches(re, s, IF m[2] > m[1] THEN m[2] ELSE m[1] + 1, ci)

\* the clock-time tokens of a header: hour, optional minutes, optional am/pm
ClockTokens(h) == AllMatches(EndToken, h, 1, TRUE)

BadBlock(k) == extractTimeInfo(HeaderOf(k)) = NULL

\* the text of the blocks, a time token appended to each unparseable header
RepairedText ==
    Join([k \in 1..Len(dayBlocks) |->
             IF BadBlock(k - 1)
             THEN Join(<<HeaderOf(k - 1) \o " 12:00pm">> \o BodyOf(k - 1), "\n")
             ELSE dayBlocks[k]], "\n")

C6_BadBlockOmittedOthersKept ==
    Returned =>
        /\ \A k \in BlockIndexes :
               ClockTokens(HeaderOf(k)) = <<>> => k \notin DOMAIN parsedMenu
        /\ \A k \in BlockIndexes : BadBlock(k) <=> k \notin DOMAIN parsedMenu
        /\ (\E k \in BlockIndexes : BadBlock(k)) =>
               LET repaired == parseMenu(RepairedText)
               IN  /\ DOMAIN repaired = BlockIndexes
                   /\ \A k \in DOMAIN parsedMenu : parsedMenu[k] = repaired[k]

\* a bad block first, then a good block that keeps its course
C6_Witness ==
    /\ Returned
    /\ Len(dayBlocks) >= 2
    /\ BadBlock(0)
    /\ 0 \notin DOMAIN parsedMenu
    /\ 1 \in DOMAIN parsedMenu
    /\ parsedMenu[1].courses # <<>>

(***************************************************************************)
(* C7: every session of the result has a non-empty startTime and a         *)
(* non-empty endTime; when the header holds exactly one clock-time token,  *)
(* both are that token ("Breakfast 7:00am" gives 7:00am and 7:00am).       *)
(***************************************************************************)
C7_BothTimesSet ==
    Returned =>
        \A k \in DOMAIN parsedMenu :
            /\ parsedMenu[k].startTime # ""
            /\ parsedMenu[k].endTime # ""
            /\ Len(ClockTokens(HeaderOf(k))) = 1 =>
                   /\ parsedMenu[k].startTime = ClockTokens(HeaderOf(k))[1]
                   /\ parsedMenu[k].endTime = ClockTokens(HeaderOf(k))[1]
            /\ HeaderOf(k) = "Breakfast 7:00am" =>
                   /\ parsedMenu[k].startTime = "7:00am"
                   /\ parsedMenu[k].endTime = "7:00am"

C7_Witness ==
    /\ Returned
    /\ 0 \in DOMAIN parsedMenu
    /\ HeaderOf(0) = "Breakfast 7:00am"
    /\ ClockTokens(HeaderOf(0)) = <<"7:00am">>
    /\ parsedMenu[0].startTime = "7:00am"
    /\ parsedMenu[0].endTime = "7:00am"

(***************************************************************************)
(* C8: timeOfDay is the first of breakfast, brunch, lunch, dinner that the *)
(* header contains, whatever the case of the letters, and "lunch" when it  *)
(* contains none of them.                                                  *)
(***************************************************************************)
C8_FirstKeywordInTableOrder ==
    Returned =>
        \A k \in DOMAIN parsedMenu :
            LET h == ToLower(HeaderOf(k))
            IN  parsedMenu[k].timeOfDay =
                    IF Includes(h, "breakfast") THEN "breakfast"
                    ELSE IF Includes(h, "brunch") THEN "brunch"
                    ELSE IF Includes(h, "lunch") THEN "lunch"
                    ELSE IF Includes(h, "dinner") THEN "dinner"
                    ELSE "lunch"

\* a header with "Brunch" and "Lunch" is brunch
C8_Witness ==
    /\ Returned
    /\ 0 \in DOMAIN parsedMenu
    /\ Includes(ToLower(HeaderOf(0)), "brunch")
    /\ Includes(ToLower(HeaderOf(0)), "lunch")
    /\ parsedMenu[0].timeOfDay = "brunch"

(***************************************************************************)
(* C9: a course is emitted only with at least one item: no foodItems is    *)
(* empty, and the courses are as many as the course-type headers (and the  *)
(* implicit leading course) that have a surviving item line before the     *)
(* next header, the notice line or the end of the block.                   *)
(***************************************************************************)
\* the lines of the body of block k that parseCourses reads
ReadBody(k) == SubSeq(BodyOf(k), 1, FirstNotice(BodyOf(k), 1) - 1)

\* the number of runs of ls, opened by a course-type header or by a leading
\* unlabelled line, that hold a line that survives sanitization
LiveRuns(ls) ==
    LET heads == {i \in 1..Len(ls) : isCourseType(ls[i])}
        starts == heads \cup (IF Len(ls) >= 1 /\ 1 \notin heads THEN {0} ELSE {})
        last(h) == Min({j \in heads : j > h} \cup {Len(ls) + 1}) - 1
    IN  Cardinality({h \in starts :
                        \E j \in (h + 1)..last(h) : cleanFoodItem(ls[j]) # ""})

C9_NoEmptyCourse ==
    Returned =>
        \A k \in DOMAIN parsedMenu :
            /\ \A i \in 1..Len(parsedMenu[k].courses) :
                   parsedMenu[k].courses[i].foodItems # ""
            /\ Len(parsedMenu[k].courses) = LiveRuns(ReadBody(k))

\* Entrée has no item line and is not emitted; Dessert is
C9_Witness ==
    /\ Returned
    /\ 0 \in DOMAIN parsedMenu
    /\ BodyOf(0) = <<"Entrée", "Dessert", "Pasta">>
    /\ parsedMenu[0].courses =
           <<[id |-> 0, courseType |-> "Dessert", foodItems |-> "Pasta"]>>

(***************************************************************************)
(* C10: the lines after the header and before the first course-type header *)
(* and the first notice line that are not empty after sanitization are the *)
(* items, in order, of the first course, whose type is "Main Items".       *)
(***************************************************************************)
LeadingLines(k) ==
    SubSeq(BodyOf(k), 1,
           Min({FirstNotice(BodyOf(k), 1), FirstCourseHeader(BodyOf(k))}) - 1)

C10_LeadingItemsKept ==
    Returned =>
        \A k \in DOMAIN parsedMenu :
            LET items == SurvivingItems(LeadingLines(k))
            IN  items # <<>> =>
                    /\ Len(parsedMenu[k].courses) >= 1
                    /\ parsedMenu[k].courses[1].id = 0
                    /\ parsedMenu[k].courses[1].courseType = "Main Items"
                    /\ parsedMenu[k].courses[1].foodItems = Join(items, ", ")

\* an unlabelled line, then a labelled course
C10_Witness ==
    /\ Returned
    /\ 0 \in DOMAIN parsedMenu
    /\ BodyOf(0) = <<"Pasta", "Entrée", "[>] Fresh Fruit ®">>
    /\ parsedMenu[0].courses =
           <<[id |-> 0, courseType |-> "Main Items", foodItems |-> "Pasta"],
             [id |-> 1, courseType |-> "Entrée", foodItems |-> "Fresh Fruit"]>>

(***************************************************************************)
(* C11: the item sanitizer is idempotent: for every line x, sanitizing     *)
(* what the sanitizer returned for x returns it unchanged, that is         *)
(* cleanFoodItem(cleanFoodItem(x)) = cleanFoodItem(x).                     *)
(***************************************************************************)
C11_SanitizerIdempotent == cleanFoodItem(cleanedItem) = cleanedItem

(***************************************************************************)
(* C12: a food name between artifact tokens (bracket tokens, trademark and *)
(* copyright glyphs, runs of @, decorative bullets) sanitizes to exactly   *)
(* the food name, with single spaces and no whitespace at its ends;        *)
(* "[>] Fresh Fruit (R)" sanitizes to "Fresh Fruit".                       *)
(***************************************************************************)
HasPrefix(s, t) == Len(t) <= Len(s) /\ SubSeq(s, 1, Len(t)) = t
HasSuffix(s, t) == Len(t) <= Len(s) /\ SubSeq(s, Len(s) - Len(t) + 1, Len(s)) = t

\* the artifact tokens of the items, the single @ of a run, and the space
WrapTokens ==
    ArtifactTokens
    \cup {"©", TradeMark, ServiceMark, "[>>]", "(<<)", "{}", "[\\/]", "[--]", "[Vv]",
          "(1)", "@@)", BlackSquare, BlackStar, CheckMark, VS16, Scissors, "@", " "}

RECURSIVE UnwrapLeft(_)
\* s without the artifact tokens and the spaces it begins with, the longest
\* token first
UnwrapLeft(s) ==
    LET ts == {t \in WrapTokens : HasPrefix(s, t)}
    IN  IF ts = {} THEN s ELSE UnwrapLeft(Rest(s, Max({Len(t) : t \in ts}) + 1))

RECURSIVE UnwrapRight(_)
\* s without the artifact tokens and the spaces it ends with
UnwrapRight(s) ==
    LET ts == {t \in WrapTokens : HasSuffix(s, t)}
    IN  IF ts = {} THEN s
        ELSE UnwrapRight(SubSeq(s, 1, Len(s) - Max({Len(t) : t \in ts})))

Unwrapped(s) == UnwrapRight(UnwrapLeft(s))

\* the characters that occur in artifacts
ArtifactChars ==
    {"[", "]", "(", ")", "{", "}", "<", ">", "@", "®", "©", TradeMark, ServiceMark}
    \cup Shapes \cup Stars \cup MiscSymbols \cup Dingbats

\* a food name: words of more than one capital letter, single spaces between
\* them, no artifact character, no leading bullet marker, no comma at the
\* end or next to another, no notice phrase
IsFoodName(n) ==
    /\ n # ""
    /\ \A j \in 1..Len(n) : CharAt(n, j) \notin ArtifactChars \cup (WhiteSpace \ {" "})
    /\ \A w \in {Split(n, " ")[j] : j \in 1..Len(Split(n, " "))} :
           w # "" /\ w \notin UpperCase
    /\ CharAt(n, 1) \notin {"-", Bullet, "*"}
    /\ CharAt(n, Len(n)) # ","
    /\ ~Includes(n, ",,") /\ ~Includes(n, ", ,")
    /\ ~SomeTest(RemoveNoticePatterns, n, TRUE)

C12_WrappedNameRestored ==
    /\ LET With(name) == (name # item /\ IsFoodName(name)) => cleanedItem = name
       IN  With(Unwrapped(item))
    /\ item = "[>] Fresh Fruit ®" => cleanedItem = "Fresh Fruit"

\* Scenario D
C12_Witness ==
    /\ item = "[>] Fresh Fruit ®"
    /\ Unwrapped(item) = "Fresh Fruit"
    /\ IsFoodName(Unwrapped(item))
    /\ cleanedItem = "Fresh Fruit"

(***************************************************************************)
(* C13: a food-item line made of artifacts only sanitizes to the empty     *)
(* string and the classifier drops it: the courses of the block are those  *)
(* of the block without the line, no foodItems has an empty element or a   *)
(* doubled ", " separator, and the block is parsed (there is no error).    *)
(***************************************************************************)
\* a line of artifact tokens and spaces only
IsArtifactLine(l) == l # "" /\ Unwrapped(l) = ""

NotArtifactLine(l) == ~IsArtifactLine(l)

C13_ArtifactLineDropped ==
    Returned =>
        \A k \in BlockIndexes :
            ~BadBlock(k) =>
                /\ k \in DOMAIN parsedMenu
                /\ \A j \in 1..Len(ReadBody(k)) :
                       IsArtifactLine(ReadBody(k)[j]) => cleanFoodItem(ReadBody(k)[j]) = ""
                /\ parsedMenu[k].courses
                       = parseCourses(SelectSeq(ReadBody(k), NotArtifactLine))
                /\ \A i \in 1..Len(parsedMenu[k].courses) :
                       LET items == parsedMenu[k].courses[i].foodItems
                       IN  /\ ~HasPrefix(items, ", ")
                           /\ ~HasSuffix(items, ", ")
                           /\ ~Includes(items, ", , ")

\* an artifact line between two items of an open course
C13_Witness ==
    /\ Returned
    /\ 0 \in DOMAIN parsedMenu
    /\ BodyOf(0) = <<"Pasta", "[/]", "[>] Fresh Fruit ®">>
    /\ IsArtifactLine(BodyOf(0)[2])
    /\ parsedMenu[0].courses =
           <<[id |-> 0, courseType |-> "Main Items", foodItems |-> "Pasta, Fresh Fruit"]>>

(***************************************************************************)
(* C14: parseMenu is deterministic and keeps no state between calls: what  *)
(* a call returns for a text is what parseMenu returns for that text on    *)
(* fresh RegExp objects, whatever was parsed before, and is what an        *)
(* earlier call returned for the same text; no call changes the static     *)
(* pattern tables (the lastIndex of their RegExp objects stays 0); and the *)
(* result of an earlier call that the caller holds is another object than  *)
(* the one a later call builds, and stays what that call returned.         *)
(***************************************************************************)
C14_NoStateBetweenCalls ==
    /\ Returned => parsedMenu = parseMenu(ocrText)
    /\ (Returned /\ previous.object # 0 /\ previous.text = ocrText)
           => parsedMenu = previous.menu
    /\ pc # "idle" => dayBlocks = extractDayBlocks(cleanText(ocrText))
    /\ lastIndex = FreshLastIndex
    /\ previous.object # 0 => /\ previous.object # menuObject
                              /\ previous.menu = parseMenu(previous.text)

\* a second call returns while the caller holds the result of a first call
\* for another text, and both texts have lines that match static patterns
C14_Witness ==
    /\ Returned
    /\ previous.text = ScenarioC
    /\ DOMAIN previous.menu = {0}
    /\ Len(dayBlocks) = 2
    /\ DOMAIN parsedMenu = {0, 1}
    /\ parsedMenu[0].timeOfDay = "breakfast"
    /\ parsedMenu[1].timeOfDay = "lunch"

(***************************************************************************)
(* C15: the non-blank lines before the first weekday line form no block    *)
(* and are discarded: the blocks hold the lines of the text from the first *)
(* weekday line on, and the first block begins with a weekday line.        *)
(***************************************************************************)
\* the position of the first weekday line of ls, Len(ls) + 1 when there is
\* none
FirstDayLine(ls) == Min({i \in 1..Len(ls) : isDayHeader(ls[i])} \cup {Len(ls) + 1})

C15_PreambleDiscarded ==
    pc # "idle" =>
        LET ls == TextLines(ocrText)
        IN  /\ Len(dayBlocks) > 0 => isDayHeader(HeaderOf(0))
            /\ Flatten([k \in 1..Len(dayBlocks) |-> Split(dayBlocks[k], "\n")])
                   = SubSeq(ls, FirstDayLine(ls), Len(ls))

(***************************************************************************)
(* C16: a clock-time token is an hour with an optional ":minute" part and  *)
(* an optional am/pm suffix.  A header with two such tokens separated by a *)
(* dash-like character yields startTime = the first and endTime = the      *)
(* second ("Lunch 11am - 1pm" gives 11am and 1pm); a header with no such   *)
(* pair and a token, with or without minutes, yields startTime = endTime = *)
(* that token ("Dinner 5pm" gives 5pm and 5pm).                            *)
(***************************************************************************)
C16_MinutesOptional ==
    Returned =>
        \A k \in BlockIndexes :
            LET h == HeaderOf(k)
                range == MatchGroups(h, EndToken, RangeDash, EndToken, TRUE, 1)
                tokens == ClockTokens(h)
            IN  /\ range # <<>> =>
                       /\ k \in DOMAIN parsedMenu
                       /\ parsedMenu[k].startTime = Trim(range[1])
                       /\ parsedMenu[k].endTime = Trim(range[2])
                /\ (range = <<>> /\ tokens # <<>>) =>
                       /\ k \in DOMAIN parsedMenu
                       /\ parsedMenu[k].startTime = tokens[1]
                       /\ parsedMenu[k].endTime = tokens[1]
                /\ h = "Lunch 11am - 1pm" =>
                       /\ k \in DOMAIN parsedMenu
                       /\ parsedMenu[k].startTime = "11am"
                       /\ parsedMenu[k].endTime = "1pm"
                /\ h = "Dinner 5pm" =>
                       /\ k \in DOMAIN parsedMenu
                       /\ parsedMenu[k].startTime = "5pm"
                       /\ parsedMenu[k].endTime = "5pm"

(***************************************************************************)
(* C19: extractDayBlocks splits at every weekday line.  A line that holds  *)
(* a weekday name, in any case of the letters, closes the block that is    *)
(* being accumulated and is the first line of the next one, so no block    *)
(* holds a weekday line but as its first line; blank lines are in no block *)
(* and cause no split; the last block is emitted though no weekday line    *)
(* follows it.                                                             *)
(***************************************************************************)
Weekdays ==
    {"monday", "tuesday", "wednesday", "thursday", "friday", "saturday", "sunday"}

HasWeekday(l) == \E d \in Weekdays : Includes(ToLower(l), d)

C19_SplitAtEveryWeekdayLine ==
    pc # "idle" =>
        LET ls == TextLines(ocrText)
            days == {i \in 1..Len(ls) : HasWeekday(ls[i])}
        IN  /\ Flatten([k \in 1..Len(dayBlocks) |-> Split(dayBlocks[k], "\n")]) = ls
            /\ Len(dayBlocks) = Cardinality(days \cup (IF Len(ls) > 0 THEN {1} ELSE {}))
            /\ \A k \in BlockIndexes :
                   /\ \A j \in 1..Len(BlockLines(k)) : BlockLines(k)[j] # ""
                   /\ \A j \in 2..Len(BlockLines(k)) : ~HasWeekday(BlockLines(k)[j])
                   /\ k > 0 => HasWeekday(HeaderOf(k))

\* a blank line inside the first block, a weekday line that closes it, and a
\* last block that nothing follows
C19_Witness ==
    /\ pc = "forEach"
    /\ Includes(ocrText, "\n \n")
    /\ dayBlocks = <<"Monday Breakfast 7:00am\nEggs", "Tuesday\nSoup">>

(***************************************************************************)
(* C20: in parseCourses the notice check comes before the course-type      *)
(* check.  A line that matches a notice pattern and holds a course-type    *)
(* label ("Dessert Notice*") stops the block and opens no course: the      *)
(* courses are those of the lines before it, the course open at that point *)
(* among them with the items it had.                                       *)
(***************************************************************************)
\* the positions of the lines of ls that match a notice pattern and hold a
\* course-type label
LabelledNotices(ls) == {j \in 1..Len(ls) : isNoticeLine(ls[j]) /\ isCourseType(ls[j])}

C20_NoticeBeforeCourseType ==
    Returned =>
        \A k \in DOMAIN parsedMenu :
            LET body == BodyOf(k)
                n == FirstNotice(body, 1)
            IN  n \in LabelledNotices(body) =>
                    /\ parsedMenu[k].courses = parseCourses(SubSeq(body, 1, n - 1))
                    /\ Len(parsedMenu[k].courses) = LiveRuns(SubSeq(body, 1, n - 1))
                    /\ Join(FoodItemsOf(parsedMenu[k].courses), ", ")
                           = Join(SurvivingItems(SubSeq(body, 1, n - 1)), ", ")
                    /\ \A i \in 1..Len(parsedMenu[k].courses) :
                           \E j \in 1..(n - 1) :
                               \/ parsedMenu[k].courses[i].courseType
                                      = normalizeCourseType(body[j])
                               \/ parsedMenu[k].courses[i].courseType = "Main Items"

\* "Dessert Notice*" while Entrée is open with one item
C20_Witness ==
    /\ Returned
    /\ 0 \in DOMAIN parsedMenu
    /\ BodyOf(0) = <<"Entrée", "Pasta", "Dessert Notice*", "Cake">>
    /\ LabelledNotices(BodyOf(0)) = {3}
    /\ parsedMenu[0].courses =
           <<[id |-> 0, courseType |-> "Entrée", foodItems |-> "Pasta"]>>

(***************************************************************************)
(* Vocabulary of the properties of GrokMenuParser.parseMenu                *)
(***************************************************************************)

\* the call has come to its end after JSON.parse was tried
GrokParsed == grokPc \in {"returned", "thrown"} /\ attempts > 0

\* what the more permissive extraction takes from the text: all from its
\* first { to its last }, "" when no } follows a {
BraceSpan(text) ==
    LET Span(opens, closes) ==
            IF opens # {} /\ closes # {} /\ Min(opens) < Max(closes)
            THEN SubSeq(text, Min(opens), Max(closes))
            ELSE ""
    IN  Span({j \in 1..Len(text) : CharAt(text, j) = "{"},
             {j \in 1..Len(text) : CharAt(text, j) = "}"})

\* the first RawResponseLength characters of the text
HeadOf(text) == FirstUnits(text, RawResponseLength)

\* after a jsonString that is no JSON: at most one more JSON.parse, of the
\* brace span when there is one; its value is returned, and without a brace
\* span or with one that is no JSON either the call throws an error that
\* holds the diagnosis of the content
RetriedOnce(Diagnosis(_)) ==
    (GrokParsed /\ ~JSONparse(jsonString).ok) =>
        LET With(second) ==
                /\ attempts = IF BraceSpan(content) = "" THEN 1 ELSE 2
                /\ IF second.ok
                   THEN grokPc = "returned" /\ outcome = ReturnedValue(second.v)
                   ELSE /\ grokPc = "thrown"
                        /\ Includes(outcome.thrown, Diagnosis(content))
        IN  With(JSONparse(BraceSpan(content)))

WholeOf(text) == text

(***************************************************************************)
(* C17: GrokMenuParser.parseMenu validates the structure again before it   *)
(* returns: every value it returns, rather than throws on, satisfies       *)
(* validateMenuStructure, that is, is a non-empty object whose every day   *)
(* has a numeric id, a string dayName and an array meals of well-typed     *)
(* meals and courses.                                                      *)
(***************************************************************************)
C17_ReturnedMenuValid ==
    grokPc = "returned" => validateMenuStructure(outcome.returned)

(***************************************************************************)
(* C18, as amended: when the payload extracted from the response is not    *)
(* valid JSON, GrokMenuParser.parseMenu retries the extraction exactly     *)
(* once with the more permissive strategy; if that attempt also fails (or  *)
(* finds no JSON object) the call ends in a thrown error, never a returned *)
(* menu, and the error carries the first 500 characters of the raw         *)
(* response.                                                               *)
(***************************************************************************)
C18_RetriedOnceThenThrown == RetriedOnce(HeadOf)

\* the first payload was taken from a code block and is no JSON, the retry
\* found a brace span that is no JSON either, and the call has thrown
C18_Witness ==
    /\ grokPc = "thrown"
    /\ attempts = 2
    /\ BraceSpan(content) \notin {"", jsonString}
    /\ ~JSONparse(BraceSpan(content)).ok

\* C18 as stated: the error carries the raw response
C18_ErrorCarriesRawResponse == RetriedOnce(WholeOf)

(***************************************************************************)
(* parseCourses, line by line, and normalizeCourseType on its own          *)
(***************************************************************************)

\* the lines parseCourses is given
MaxCourseLines == 3

\* two course-type headers the normalization rewrites, one it passes
\* through, food items, a line of OCR artifacts only, a blank line and a
\* notice line
CourseBodyLines ==
    {"Entrée", " soups of the day ", "Appetizer: Wings", "Pasta", "[>] Fresh Fruit ®",
     "[/]", "", "Notice: see posted allergen list"}

\* longer bodies: a header without items between two courses, an item with
\* a comma, the same item in two courses, items after a notice line
CourseScenarios ==
    {<<"Pasta", "Entrée", " soups of the day ", "[>] Fresh Fruit ®">>,
     <<"Entrée", "Beef, braised", "[/]", "Pasta", "Dessert", "Pasta">>,
     <<"Dessert", "Pasta", "", "[>] Fresh Fruit ®", "Notice: see posted allergen list",
       "Entrée", "Pasta">>}

LineSeqs == SeqsUpTo(CourseBodyLines, MaxCourseLines) \cup CourseScenarios

\* header lines for normalizeCourseType: every keyword alone, in other case,
\* between other text, and two or three keywords in one line in both orders
TypeWords ==
    {"Entrée", "Entree", "International", "Intemational", "Salad", "Soup", "Pasta",
     "Dessert", "Appetizer", "Main Course", "Side Dish"}

TypeLines ==
    {Join(<<a, b>>, sep) : a \in TypeWords \cup {"ENTREE", "ENTRÉE", "pasta", " dessert", VT \o "Side Dish"},
                           b \in TypeWords \cup {"", "[>]", ": Wings "},
                           sep \in {" "}}

\* parseCourses(lines) is called
ParseCourses(lines) ==
    /\ coursePc = "idle"
    /\ typeLine = ""
    /\ coursePc' = "loop"
    /\ courseLines' = lines
    /\ lineIndex' = 1
    /\ courseLocals' = FirstLocals
    /\ UNCHANGED <<typeLine, typeResult, otherThanCourses>>

\* one turn of for (const line of lines); a notice line breaks out of the
\* loop
CourseLine ==
    /\ coursePc = "loop"
    /\ lineIndex <= Len(courseLines)
    /\ LET Turn(trimmedLine) ==
               IF isNoticeLine(trimmedLine)
               THEN /\ coursePc' = "last"
                    /\ UNCHANGED <<lineIndex, courseLocals>>
               ELSE /\ courseLocals' = CourseStep(courseLocals, trimmedLine)
                    /\ lineIndex' = lineIndex + 1
                    /\ UNCHANGED coursePc
       IN  Turn(Trim(courseLines[lineIndex]))
    /\ UNCHANGED <<courseLines, typeLine, typeResult, otherThanCourses>>

\* after the loop: the last course is added and courses is returned
LastCourse ==
    /\ \/ coursePc = "last"
       \/ coursePc = "loop" /\ lineIndex > Len(courseLines)
    /\ coursePc' = "returned"
    /\ courseLocals' = PushCourse(courseLocals)
    /\ UNCHANGED <<courseLines, lineIndex, typeLine, typeResult, otherThanCourses>>

\* the caller has taken the courses
CoursesRelease ==
    /\ coursePc = "returned"
    /\ coursePc' = "idle"
    /\ courseLines' = <<>>
    /\ lineIndex' = 0
    /\ courseLocals' = FirstLocals
    /\ UNCHANGED <<typeLine, typeResult, otherThanCourses>>

\* normalizeCourseType(courseType) is called and returns
NormalizeCourseType(courseType) ==
    /\ coursePc = "idle"
    /\ typeLine = ""
    /\ typeLine' = courseType
    /\ typeResult' = normalizeCourseType(courseType)
    /\ UNCHANGED <<coursePc, courseLines, lineIndex, courseLocals, otherThanCourses>>

\* the caller has taken the course type
TypeRelease ==
    /\ typeLine # ""
    /\ typeLine' = ""
    /\ typeResult' = ""
    /\ UNCHANGED <<coursePc, courseLines, lineIndex, courseLocals, otherThanCourses>>

CoursesNext ==
    \/ \E lines \in LineSeqs : ParseCourses(lines)
    \/ CourseLine
    \/ LastCourse
    \/ CoursesRelease
    \/ \E courseType \in TypeLines : NormalizeCourseType(courseType)
    \/ TypeRelease

CoursesSpec == Init /\ [][CoursesNext]_vars

(***************************************************************************)
(* Vocabulary of the properties of parseCourses                            *)
(***************************************************************************)

\* the lines the loop of parseCourses has read so far, trimmed
ReadLines == <<>> \o [k \in 1..(lineIndex - 1) |-> Trim(courseLines[k])]

\* the position of the nearest course-type header among the first i lines
\* of ls, 0 when there is none
Opener(ls, i) == Max({h \in 1..i : isCourseType(ls[h])} \cup {0})

\* the course type that is open after the first i lines of ls
OpenType(ls, i) ==
    LET Type(g) ==
            IF g > 0 THEN normalizeCourseType(ls[g])
            ELSE IF \E k \in 1..i : ls[k] # "" THEN "Main Items"
            ELSE ""
    IN  Type(Opener(ls, i))

\* the sanitized items of the lines after the nearest header among the
\* first i lines of ls
ItemsSince(ls, i) == SurvivingItems(SubSeq(ls, Opener(ls, i) + 1, i))

\* a course without its id
Labelled(c) == [courseType |-> c.courseType, foodItems |-> c.foodItems]

\* the course the open course type and the pending items make
OpenCourse ==
    [courseType |-> courseLocals.currentCourseType,
     foodItems |-> Join(courseLocals.currentFoodItems, ", ")]

\* a step of parseCourses either leaves the course list alone or appends
\* the open course to it; it appends it exactly when there is an open
\* course with an item and the step reads a header or is the last one
CourseListStep ==
    coursePc \in {"loop", "last"} =>
        LET emitted == courseLocals.courses
            after == courseLocals.courses'
            closes == /\ courseLocals.currentCourseType # ""
                      /\ courseLocals.currentFoodItems # <<>>
                      /\ \/ coursePc' = "returned"
                         \/ /\ lineIndex' = lineIndex + 1
                            /\ isCourseType(Trim(courseLines[lineIndex]))
        IN  IF closes
            THEN /\ Len(after) = Len(emitted) + 1
                 /\ SubSeq(after, 1, Len(emitted)) = emitted
                 /\ Labelled(after[Len(after)]) = OpenCourse
            ELSE after = emitted

(***************************************************************************)
(* C21: each food item is attributed to the course opened by the nearest   *)
(* preceding course-type header line (or to "Main Items" when no header    *)
(* precedes it): while parseCourses reads its lines, the open course type  *)
(* is that of the nearest header read and the pending items are the        *)
(* surviving items read since that header; a header line closes the open   *)
(* course, appending it when it has at least one item, and leaves no       *)
(* pending item, so no item is in two courses; and the course list only    *)
(* grows at its end, by the course that was open.                          *)
(***************************************************************************)
C21_ItemsFollowNearestHeader ==
    /\ [](coursePc = "loop" =>
            /\ courseLocals.currentCourseType = OpenType(ReadLines, lineIndex - 1)
            /\ courseLocals.currentFoodItems = ItemsSince(ReadLines, lineIndex - 1))
    /\ [][CourseListStep]_vars

\* items before any header, then a header with an item of its own: two
\* courses, "Main Items" first
C21_Witness ==
    /\ coursePc = "returned"
    /\ Len(courseLines) = 3
    /\ ~isCourseType(courseLines[1])
    /\ isCourseType(courseLines[2])
    /\ Len(courseLocals.courses) = 2
    /\ courseLocals.courses[1].courseType = "Main Items"
    /\ courseLocals.courses[2].courseType = "Entrée"

(***************************************************************************)
(* Vocabulary of the properties of normalizeCourseType                     *)
(***************************************************************************)

\* the rules of the normalization in their order: the words a rule looks
\* for and the course type it gives
NormalizationRules ==
    <<[words |-> {"entrée", "entree"}, type |-> "Entrée"],
      [words |-> {"international", "intemational"}, type |-> "International Station"],
      [words |-> {"salad"}, type |-> "Salads of the Day"],
      [words |-> {"soup"}, type |-> "Soups of the Day"],
      [words |-> {"pasta"}, type |-> "Pasta Station"],
      [words |-> {"dessert"}, type |-> "Dessert"]>>

\* the rules that apply to a line: one of the words of the rule occurs in
\* the line in some mix of upper and lower case
RulesFor(line) ==
    LET In(lower) ==
            {k \in 1..Len(NormalizationRules) :
                \E w \in NormalizationRules[k].words : Includes(lower, w)}
    IN  In(ToLower(line))

(***************************************************************************)
(* C22: normalizeCourseType maps a header line by the first rule that      *)
(* applies, in the order entrée/entree, international/intemational, salad, *)
(* soup, pasta, dessert; a line no rule applies to is returned trimmed and *)
(* otherwise unchanged. The words are found in any case, and a line that   *)
(* matches several rules gets the type of the earliest one.                *)
(***************************************************************************)
C22_EarliestRuleWins ==
    typeLine # "" =>
        LET Expected(rules) ==
                IF rules = {} THEN Trim(typeLine)
                ELSE NormalizationRules[Min(rules)].type
        IN  typeResult = Expected(RulesFor(typeLine))

\* a line with the word of the fifth rule before the word of the third one,
\* both capitalized: the third rule gives the type
C22_Witness ==
    /\ typeLine = "Pasta Salad"
    /\ RulesFor(typeLine) = {3, 5}
    /\ typeResult = "Salads of the Day"

\* the course types of the data model
CourseTypeVocabulary ==
    {"Entrée", "International Station", "Salads of the Day", "Soups of the Day",
     "Pasta Station", "Dessert", "Appetizer", "Main Course", "Side Dish", "Main Items"}

(***************************************************************************)
(* C23: the courseType of every course parseCourses emits is one of the    *)
(* ten course types of the data model, whatever other text the header line *)
(* contained.                                                              *)
(***************************************************************************)
C23_CourseTypeInVocabulary ==
    \A k \in 1..Len(courseLocals.courses) :
        courseLocals.courses[k].courseType \in CourseTypeVocabulary

(***************************************************************************)
(* C24: the ids of the courses of a session are 0-based and consecutive in *)
(* the order the courses are emitted: n courses have the ids 0..n-1, and   *)
(* a header whose course is dropped for having no item consumes no id.     *)
(***************************************************************************)
C24_CourseIdsConsecutive ==
    /\ \A k \in 1..Len(courseLocals.courses) : courseLocals.courses[k].id = k - 1
    /\ courseLocals.courseId = Len(courseLocals.courses)

\* a header with no item between two courses with items: the course after
\* the dropped one has the id 1
C24_Witness ==
    /\ coursePc = "returned"
    /\ courseLines = <<"Pasta", "Entrée", " soups of the day ", "[>] Fresh Fruit ®">>
    /\ Len(courseLocals.courses) = 2
    /\ courseLocals.courses[1].courseType = "Main Items"
    /\ courseLocals.courses[2].courseType = "Soups of the Day"
    /\ courseLocals.courses[2].id = 1

\* the trimmed lines of ls before its first notice line
BeforeNotice(ls) ==
    LET Cut(tl) == SubSeq(tl, 1, FirstNotice(tl, 1) - 1)
    IN  Cut(<<>> \o [k \in 1..Len(ls) |-> Trim(ls[k])])

\* the sanitized items of the lines between the header at position g of ls
\* (the start of ls when g is 0) and the next header
ItemsUnder(ls, g) ==
    SurvivingItems(SubSeq(ls, g + 1,
        Min({h \in (g + 1)..Len(ls) : isCourseType(ls[h])} \cup {Len(ls) + 1}) - 1))

RECURSIVE Listed(_)
\* the items one after the other with a comma and one space between them
Listed(items) ==
    IF Len(items) = 0 THEN ""
    ELSE IF Len(items) = 1 THEN items[1]
    ELSE items[1] \o ", " \o Listed(SubSeq(items, 2, Len(items)))

(***************************************************************************)
(* C25: the foodItems of a course is exactly its surviving sanitized item  *)
(* lines, in source order, joined with a comma followed by one space: the  *)
(* courses parseCourses returns are, in order, those of the headers (and   *)
(* of the start of the lines) that have at least one surviving item, and   *)
(* the foodItems of each is the list of those items, none moved, repeated  *)
(* or lost.                                                                *)
(***************************************************************************)
C25_FoodItemsAreJoinedSurvivors ==
    coursePc = "returned" =>
        LET Check(ls) ==
                LET withItems == {g \in 0..Len(ls) :
                                     /\ g = 0 \/ isCourseType(ls[g])
                                     /\ ItemsUnder(ls, g) # <<>>}
                IN  /\ Len(courseLocals.courses) = Cardinality(withItems)
                    /\ \A g \in withItems :
                           courseLocals.courses[Cardinality({h \in withItems : h <= g})].foodItems
                               = Listed(ItemsUnder(ls, g))
        IN  Check(BeforeNotice(courseLines))

\* a course with two items, one of them with a comma of its own, and a line
\* of artifacts between them that does not survive
C25_Witness ==
    /\ coursePc = "returned"
    /\ courseLines = <<"Entrée", "Beef, braised", "[/]", "Pasta", "Dessert", "Pasta">>
    /\ FoodItemsOf(courseLocals.courses) = <<"Beef, braised, Pasta", "Pasta">>

(***************************************************************************)
(* C26: the day indices of the returned menu are 0-based and consecutive:  *)
(* a result with n day entries has exactly the keys 0..n-1 and the id of   *)
(* each entry is its key, also when blocks of the input were omitted for a *)
(* header without a meal keyword.                                          *)
(***************************************************************************)
C26_DayKeysConsecutive ==
    Returned =>
        /\ DOMAIN parsedMenu = 0..(Cardinality(DOMAIN parsedMenu) - 1)
        /\ \A k \in DOMAIN parsedMenu : parsedMenu[k].id = k

(***************************************************************************)
(* cleanText on its own                                                    *)
(***************************************************************************)

\* the pieces a text is made of
MaxPieces == 2

\* every character the normalizer is to fold, the two patterns of the
\* source that are written with a hyphen between two characters, as the
\* text they match, and a letter, a blank, a straight quote and a newline
TextPieces ==
    {"\r\n", "\r", LeftSingleQuote, RightSingleQuote, LeftDoubleQuote, RightDoubleQuote,
     EmDash, EnDash, Ellipsis, NBSP, U2000, U2003, U200F,
     U2000 \o "-" \o U200F, U2028 \o "-" \o U2029, U2028, VT, "a", " ", "'", "\n"}

NormalizerTexts == {Join(ps, "") : ps \in SeqsUpTo(TextPieces, MaxPieces)}

\* cleanText(text) is called and returns
CleanText(text) ==
    /\ textPc = "idle"
    /\ textPc' = "returned"
    /\ textIn' = text
    /\ textOut' = cleanText(text)
    /\ UNCHANGED otherThanText

\* the caller has taken the cleaned text
TextRelease ==
    /\ textPc = "returned"
    /\ textPc' = "idle"
    /\ textIn' = ""
    /\ textOut' = ""
    /\ UNCHANGED otherThanText

TextNext ==
    \/ \E text \in NormalizerTexts : CleanText(text)
    \/ TextRelease

TextSpec == Init /\ [][TextNext]_vars

\* the characters the normalizer is to fold that are in the alphabet
CurlyQuotes == {LeftSingleQuote, RightSingleQuote, LeftDoubleQuote, RightDoubleQuote}
ExoticSpaces == {U2000, U2003, U200F}
FoldedCharacters == {"\r", EmDash, EnDash, Ellipsis, NBSP} \cup CurlyQuotes \cup ExoticSpaces

\* the characters of the string s
CharsOf(s) == {CharAt(s, j) : j \in 1..Len(s)}

(***************************************************************************)
(* C27: the output of cleanText contains, for any input, no carriage       *)
(* return, no curly quote, no em or en dash, no ellipsis character, no     *)
(* non-breaking space and no Unicode space of U+2000..U+200F, and has no   *)
(* leading or trailing whitespace.                                         *)
(***************************************************************************)
C27_OutputFolded ==
    textPc = "returned" =>
        /\ CharsOf(textOut) \cap FoldedCharacters = {}
        /\ textOut = "" \/ (/\ CharAt(textOut, 1) \notin WhiteSpace
                             /\ CharAt(textOut, Len(textOut)) \notin WhiteSpace)

(***************************************************************************)
(* useUserPermissions (src/hooks/useUserPermissions.ts)                    *)
(***************************************************************************)

\* the calls of fetchUserPermissions that reach getDoc
MaxFetches == 2

Uids == {"A", "B"}

\* a rejected getDoc
Rejected == [rejected |-> TRUE]

\* the snapshots getDoc resolves to: no document, a document without
\* userIds, a document with a list of uids
Snaps ==
    {[exists |-> FALSE, userIds |-> Undefined]}
    \cup {[exists |-> TRUE, userIds |-> Undefined]}
    \cup {[exists |-> TRUE, userIds |-> [t |-> "array", v |-> ids]] : ids \in SUBSET Uids}

\* snap.exists() && snap.data()?.userIds?.includes(uid)
IsManager(snap, uid) ==
    IF ~snap.exists THEN JsonBoolean(FALSE)
    ELSE IF snap.userIds = Undefined THEN Undefined
    ELSE JsonBoolean(uid \in snap.userIds.v)

\* {canManageFood: false, canManageSports: false, loading: false}
Denied ==
    [canManageFood |-> JsonBoolean(FALSE), canManageSports |-> JsonBoolean(FALSE),
     loading |-> FALSE]

\* the state the catch block sets
CatchBlock(before) == Denied

\* the fetches without the fetch f
Without(f) == [g \in DOMAIN fetches \ {f} |-> fetches[g]]

\* the first render of a component that calls the hook, with the user
\* useAuth() gives at that time
Mount(uid) ==
    /\ ~mounted
    /\ mounted' = TRUE
    /\ user' = uid
    /\ effectPending' = TRUE
    /\ UNCHANGED <<permissions, fetches, started, lastSet, otherThanPermissions>>

\* useAuth() gives another user: a render with another user?.uid, after
\* which the effect runs again
AuthChanges(uid) ==
    /\ mounted
    /\ uid # user
    /\ started < MaxFetches
    /\ user' = uid
    /\ effectPending' = TRUE
    /\ UNCHANGED <<mounted, permissions, fetches, started, lastSet, otherThanPermissions>>

\* the effect runs fetchUserPermissions up to its first await
FetchUserPermissions ==
    /\ effectPending
    /\ effectPending' = FALSE
    /\ IF user = NoUser
       THEN /\ permissions' = Denied
            /\ lastSet' = [NeverSet EXCEPT !.set = TRUE]
            /\ UNCHANGED <<fetches, started>>
       ELSE /\ started < MaxFetches
            /\ started' = started + 1
            /\ fetches' = [f \in DOMAIN fetches \cup {started + 1} |->
                              IF f = started + 1
                              THEN [uid |-> user, at |-> "food", food |-> NoSnap]
                              ELSE fetches[f]]
            /\ UNCHANGED <<permissions, lastSet>>
    /\ UNCHANGED <<mounted, user, otherThanPermissions>>

\* await getDoc(foodManagersRef) settles in the call f
FoodManagersSettles(f, result) ==
    /\ f \in DOMAIN fetches
    /\ fetches[f].at = "food"
    /\ IF result = Rejected
       THEN /\ permissions' = CatchBlock(permissions)
            /\ lastSet' = [set |-> TRUE, uid |-> fetches[f].uid, food |-> Rejected, sports |-> NoSnap,
                           caught |-> TRUE]
            /\ fetches' = Without(f)
       ELSE /\ fetches' = [fetches EXCEPT ![f].at = "sports", ![f].food = result]
            /\ UNCHANGED <<permissions, lastSet>>
    /\ UNCHANGED <<mounted, user, effectPending, started, otherThanPermissions>>

\* await getDoc(sportsManagersRef) settles in the call f, and the call runs
\* to its end
SportsManagersSettles(f, result) ==
    /\ f \in DOMAIN fetches
    /\ fetches[f].at = "sports"
    /\ IF result = Rejected
       THEN /\ permissions' = CatchBlock(permissions)
            /\ lastSet' = [set |-> TRUE, uid |-> fetches[f].uid, food |-> fetches[f].food,
                           sports |-> Rejected, caught |-> TRUE]
       ELSE /\ permissions' = [canManageFood |-> IsManager(fetches[f].food, fetches[f].uid),
                               canManageSports |-> IsManager(result, fetches[f].uid),
                               loading |-> FALSE]
            /\ lastSet' = [set |-> TRUE, uid |-> fetches[f].uid, food |-> fetches[f].food,
                           sports |-> result, caught |-> FALSE]
    /\ fetches' = Without(f)
    /\ UNCHANGED <<mounted, user, effectPending, started, otherThanPermissions>>

PermissionsNext ==
    \/ \E uid \in Uids \cup {NoUser} : Mount(uid)
    \/ \E uid \in Uids \cup {NoUser} : AuthChanges(uid)
    \/ FetchUserPermissions
    \/ \E f \in 1..MaxFetches, result \in Snaps \cup {Rejected} : FoodManagersSettles(f, result)
    \/ \E f \in 1..MaxFetches, result \in Snaps \cup {Rejected} : SportsManagersSettles(f, result)

PermissionsSpec == Init /\ [][PermissionsNext]_vars

\* the effect runs after the render that asked for it, and a getDoc
\* settles: it resolves or it rejects
PermissionsFairSpec ==
    /\ PermissionsSpec
    /\ WF_vars(FetchUserPermissions)
    /\ WF_vars(\E f \in 1..MaxFetches, result \in Snaps \cup {Rejected} :
                  FoodManagersSettles(f, result))
    /\ WF_vars(\E f \in 1..MaxFetches, result \in Snaps \cup {Rejected} :
                  SportsManagersSettles(f, result))

(***************************************************************************)
(* Vocabulary of the properties of useUserPermissions                      *)
(***************************************************************************)

\* the snapshot snap is of a document that exists and whose userIds list
\* contains uid
Lists(snap, uid) ==
    /\ "exists" \in DOMAIN snap
    /\ snap.exists
    /\ snap.userIds # Undefined
    /\ uid \in snap.userIds.v

\* the call f of fetchUserPermissions has run to its end and loading is
\* false
Settled(f) == f \notin DOMAIN fetches /\ ~permissions.loading

\* no permission is reported true, and loading is false
NothingGranted ==
    /\ permissions.canManageFood # JsonBoolean(TRUE)
    /\ permissions.canManageSports # JsonBoolean(TRUE)
    /\ ~permissions.loading

\* what the mounted hook reports, once the effect of the last render has
\* run, is fail-closed for the signed-in user: with no user signed in or
\* after a lookup that threw, nothing is granted and loading is false; a
\* permission that is true comes from a Groups document that exists and
\* lists the uid of the user who is signed in
FailsClosed ==
    (mounted /\ ~effectPending) =>
        /\ user = NoUser => NothingGranted
        /\ (lastSet.set /\ lastSet.caught) => permissions = Denied
        /\ permissions.canManageFood = JsonBoolean(TRUE)
               => /\ lastSet.set
                  /\ ~lastSet.caught
                  /\ Lists(lastSet.food, user)
        /\ permissions.canManageSports = JsonBoolean(TRUE)
               => /\ lastSet.set
                  /\ ~lastSet.caught
                  /\ Lists(lastSet.sports, user)

(***************************************************************************)
(* C28: useUserPermissions fails closed and always settles.  When no user  *)
(* is signed in or the group lookup throws, it reports canManageFood =     *)
(* false, canManageSports = false and loading = false; a permission is     *)
(* reported true only when the corresponding Groups document exists and    *)
(* its userIds list contains the uid of the user who is signed in; every   *)
(* call of setPermissions sets loading = false, and every call of          *)
(* fetchUserPermissions runs to an end with loading = false.               *)
(***************************************************************************)
C28_FailsClosedAndSettles ==
    /\ []FailsClosed
    /\ [](lastSet.set => ~permissions.loading)
    /\ (mounted ~> ~permissions.loading)
    /\ \A f \in 1..MaxFetches : (f \in DOMAIN fetches) ~> Settled(f)

\* a call of fetchUserPermissions that was started for another user than
\* the one signed in now runs to its end and leaves the state alone
StaleCompletionIgnored ==
    \A f \in DOMAIN fetches :
        (f \notin DOMAIN fetches' /\ fetches[f].uid # user) => permissions' = permissions

\* while a call for the signed-in user waits for getDoc, what was set for
\* another user is not reported with loading = false
NotReportedDuringFetch ==
    (/\ \E f \in DOMAIN fetches : fetches[f].uid = user
     /\ lastSet.set
     /\ lastSet.uid # user)
        => permissions.loading

(***************************************************************************)
(* C29: the permissions useUserPermissions reports always belong to the    *)
(* signed-in user: after the uid changes from A to B (or to signed-out), a *)
(* call of fetchUserPermissions started for A that completes later never   *)
(* overwrites the state, and the permissions of A are not reported with    *)
(* loading = false while the call for B waits for getDoc.                  *)
(***************************************************************************)
C29_BelongToCurrentUser ==
    /\ []NotReportedDuringFetch
    /\ [][StaleCompletionIgnored]_vars

(***************************************************************************)
(* AddMenuDialog.extractTextFromFiles, in its two versions: the one that   *)
(* reads PNG files and parses with MenuParser                              *)
(* (src/app/components/AddMenuDialog.tsx) and the one that also reads PDF  *)
(* files and parses through /api/parse-menu (src/unnamed/part_001).  A     *)
(* step runs from one await to the next.                                   *)
(***************************************************************************)

\* the files of the dialog
MaxFiles == 2

\* file.type
FileTypes == {"image/png", "application/pdf", "text/plain"}

Versions == {"MenuParser", "api"}

\* pdf.numPages
MaxPages == 2

\* the awaits of the try block of a PNG file, of the try block of a PDF
\* file (getPage and getTextContent once for each page) and of the try
\* block of the request
PngAwaits == {"createWorker", "recognize", "terminate"}
PdfAwaits == {"import", "arrayBuffer", "getDocument", "getPage", "getTextContent"}
ApiAwaits == {"fetch", "errorJson", "resultJson"}

\* setIsProcessing(false) at the end of the call
Finished(d, pushed) ==
    [d |-> [d EXCEPT !.pc = "done"], processing |-> FALSE, navigated |-> pushed]

\* after the loop: with no text there is nothing to parse; the MenuParser
\* version parses, navigates and closes in one run (parseMenu returns for
\* every text); the api version waits for fetch
AfterLoop(d) ==
    IF Len(d.texts) = 0 THEN Finished(d, FALSE)
    ELSE IF d.version = "MenuParser" THEN Finished(d, TRUE)
    ELSE [d |-> [d EXCEPT !.pc = "fetch"], processing |-> TRUE, navigated |-> FALSE]

RECURSIVE Resume(_)
\* the loop from the file at d.i on, up to its next await: a file of
\* another type is skipped
Resume(d) ==
    IF d.i > Len(d.files) THEN AfterLoop(d)
    ELSE IF Includes(d.files[d.i], "png")
    THEN [d |-> [d EXCEPT !.pc = "createWorker"], processing |-> TRUE, navigated |-> FALSE]
    ELSE IF d.version = "api" /\ Includes(d.files[d.i], "pdf")
    THEN [d |-> [d EXCEPT !.pc = "import"], processing |-> TRUE, navigated |-> FALSE]
    ELSE Resume([d EXCEPT !.i = @ + 1])

\* the catch block of a file that rethrows: the call ends rejected
FileFailedRethrows(d) ==
    [d |-> [d EXCEPT !.pc = "rejected", !.failed = @ \cup {d.i},
                     !.numPages = 0, !.pageNum = 0],
     processing |-> TRUE, navigated |-> FALSE]

\* the catch block of a file: console.error, then the next file
FileFailed(d) ==
    Resume([d EXCEPT !.failed = @ \cup {d.i}, !.i = @ + 1, !.numPages = 0, !.pageNum = 0])

\* the loop over the pages from pageNum on, up to its next await; after
\* the last page fullText is pushed and the next file is read
PageLoop(d) ==
    IF d.pageNum <= d.numPages
    THEN [d |-> [d EXCEPT !.pc = "getPage"], processing |-> TRUE, navigated |-> FALSE]
    ELSE Resume([d EXCEPT !.texts = Append(@, d.i), !.i = @ + 1,
                          !.numPages = 0, !.pageNum = 0])

\* the state after the await d.pc has settled: how is "resolved",
\* "rejected" or, for fetch, "notOk" (a response with ok false) and, for
\* resultJson, "quota" (sessionStorage.setItem throws); n is pdf.numPages
\* of the document that getDocument resolves to
Settle(d, how, n) ==
    IF d.pc \in {"createWorker", "import", "arrayBuffer"}
    THEN IF how = "rejected" THEN FileFailed(d)
         ELSE [d |-> [d EXCEPT !.pc = CASE d.pc = "createWorker" -> "recognize"
                                        [] d.pc = "import" -> "arrayBuffer"
                                        [] d.pc = "arrayBuffer" -> "getDocument"],
               processing |-> TRUE, navigated |-> FALSE]
    ELSE IF d.pc = "getDocument"
    THEN IF how = "rejected" THEN FileFailed(d)
         ELSE PageLoop([d EXCEPT !.numPages = n, !.pageNum = 1])
    ELSE IF d.pc = "getPage"
    THEN IF how = "rejected" THEN FileFailed(d)
         ELSE [d |-> [d EXCEPT !.pc = "getTextContent"],
               processing |-> TRUE, navigated |-> FALSE]
    ELSE IF d.pc = "getTextContent"
    THEN IF how = "rejected" THEN FileFailed(d)
         ELSE PageLoop([d EXCEPT !.pageNum = @ + 1])
    ELSE IF d.pc = "recognize"
    THEN IF how = "rejected" THEN FileFailed(d)
         ELSE [d |-> [d EXCEPT !.pc = "terminate", !.texts = Append(@, d.i)],
               processing |-> TRUE, navigated |-> FALSE]
    ELSE IF d.pc = "terminate"
    THEN IF how = "rejected" THEN FileFailed(d)
         ELSE Resume([d EXCEPT !.i = @ + 1])
    ELSE IF d.pc = "fetch"
    THEN IF how = "rejected" THEN Finished(d, FALSE)
         ELSE [d |-> [d EXCEPT !.pc = IF how = "notOk" THEN "errorJson" ELSE "resultJson"],
               processing |-> TRUE, navigated |-> FALSE]
    ELSE IF d.pc = "errorJson" THEN Finished(d, FALSE)
    ELSE Finished(d, how = "resolved")

\* the ways the await at pc can settle
Settlements(at) ==
    {"resolved", "rejected"}
    \cup (IF at = "fetch" THEN {"notOk"} ELSE {})
    \cup (IF at = "resultJson" THEN {"quota"} ELSE {})

\* the button "Start Parsing" calls extractTextFromFiles; it is disabled
\* while isProcessing
ExtractTextFromFiles(version, fs) ==
    /\ dialog.pc = "idle"
    /\ ~isProcessing
    /\ LET Run(r) ==
               /\ dialog' = r.d
               /\ isProcessing' = r.processing
               /\ navigated' = r.navigated
       IN  IF Len(fs) = 0
           THEN UNCHANGED dialogVars
           ELSE Run(Resume([NoExtraction EXCEPT !.version = version, !.files = fs, !.i = 1]))
    /\ UNCHANGED otherThanDialog

\* the await the call waits at settles, and the call runs to its next
\* await or to its end
AwaitSettles(how, n) ==
    /\ dialog.pc \in PngAwaits \cup PdfAwaits \cup ApiAwaits
    /\ how \in Settlements(dialog.pc)
    /\ n = 0 \/ (dialog.pc = "getDocument" /\ how = "resolved")
    /\ LET Run(r) ==
               /\ dialog' = r.d
               /\ isProcessing' = r.processing
               /\ navigated' = r.navigated
       IN  Run(Settle(dialog, how, n))
    /\ UNCHANGED otherThanDialog

\* the call has ended; the dialog is used again
DialogRelease ==
    /\ dialog.pc = "done"
    /\ dialog' = NoExtraction
    /\ navigated' = FALSE
    /\ UNCHANGED <<isProcessing, otherThanDialog>>

DialogNext ==
    \/ \E version \in Versions, fs \in SeqsUpTo(FileTypes, MaxFiles) :
           ExtractTextFromFiles(version, fs)
    \/ \E how \in {"resolved", "rejected", "notOk", "quota"}, n \in 0..MaxPages :
           AwaitSettles(how, n)
    \/ DialogRelease

DialogSpec == Init /\ [][DialogNext]_vars

\* a promise settles: it resolves or it rejects
DialogFairSpec ==
    DialogSpec
    /\ WF_vars(\E how \in {"resolved", "rejected", "notOk", "quota"}, n \in 0..MaxPages :
                   AwaitSettles(how, n))

(***************************************************************************)
(* Vocabulary of the properties of extractTextFromFiles                    *)
(***************************************************************************)

\* the file at position j is of a type the version of the call reads
Readable(j) ==
    \/ Includes(dialog.files[j], "png")
    \/ dialog.version = "api" /\ Includes(dialog.files[j], "pdf")

\* the text of the file at position j is among allExtractedTexts
Extracted(j) == \E k \in 1..Len(dialog.texts) : dialog.texts[k] = j

(***************************************************************************)
(* C30: once extractTextFromFiles has set isProcessing to true, every      *)
(* completion path sets it back to false: files of an unsupported type     *)
(* skipped, the extraction failing on any file, no text extracted at all,  *)
(* a failure of the parse, or a parse followed by the navigation; and a    *)
(* failure on one file does not stop the remaining files from being        *)
(* processed: when the call has ended, every readable file has either      *)
(* given its text or failed in its own catch block.                        *)
(***************************************************************************)
C30_ProcessingAlwaysReset ==
    /\ (isProcessing ~> ~isProcessing)
    /\ [](isProcessing <=> dialog.pc \in PngAwaits \cup PdfAwaits \cup ApiAwaits)
    /\ [](dialog.pc = "done" =>
            \A j \in 1..Len(dialog.files) :
                /\ Readable(j) => Extracted(j) \/ j \in dialog.failed
                /\ ~Readable(j) => ~Extracted(j) /\ j \notin dialog.failed)

\* the first file failed, the second one gave its text, the parse failed:
\* the call has ended without navigation and isProcessing is false
C30_Witness ==
    /\ dialog.pc = "done"
    /\ dialog.version = "api"
    /\ dialog.failed = {1}
    /\ dialog.texts = <<2>>
    /\ ~navigated
    /\ ~isProcessing

=============================================================================
